---- MODULE Spec2Model ----
(***************************************************************************)
(* Image-to-row reconciliation of src/dataiku_webapp/backend.py.           *)
(*                                                                         *)
(* One extraction request (extract_images) is a straight-line handler:     *)
(* the target rows are collected, every extractor is run, one extractor's  *)
(* list is selected, the selected list is reconciled against the target    *)
(* rows by _assign_entries_to_rows, the images are written and the         *)
(* response is produced.  The worksheet and the package are inputs: what   *)
(* an extractor returns is drawn from the lists its code can return.       *)
(*                                                                         *)
(* An entry is the dict an extractor appends: its "row" (an integer or     *)
(* None) and its "source" (tag and running index).  "col", "ext" and       *)
(* "data" are carried by the code but read by no step of the selection or  *)
(* of the reconciliation, and are left out of the record.                  *)
(***************************************************************************)
EXTENDS Integers, Sequences, FiniteSets, TLC

VARIABLES
    pc,                        \* position of the request in extract_images
    target_rows,               \* _collect_target_rows(...)
    openpyxl_entries,          \* _extract_openpyxl_images(...)
    drawing_entries,           \* _extract_drawing_images_for_sheet(...)
    related_anchor_entries,    \* _extract_sheet_related_anchor_images(...)
    dispimg_entries,           \* _extract_dispimg_entries(...)
    cellimages_anchor_entries, \* _extract_cellimages_anchor_entries(...)
    media_images,              \* _extract_media_images(...)
    source_entries,            \* the list selected by the if/elif chain
    extraction_mode,
    mapped_rows,               \* first result of _assign_entries_to_rows
    mapping_info,              \* second result (diagnostics)
    non_target_anchor_rows,    \* rows of anchors outside the target rows
    skipped_reasons,
    written,                   \* images written to the output zip, in order
    extracted_count,
    skipped_count,
    summary,                   \* the summary.txt written into the zip
    response                   \* the HTTP response of the request

\* _resolve_zip_path(base_path, target) and its result
VARIABLES base_path, target, resolved

\* _extract_dispimg_entries: the cells of the sheet part, the image nodes of
\* the shared-images part, the start row passed in, and the entries returned
VARIABLES sheet_cells, cellimage_nodes, disp_start_row, disp_result

\* an anchor extractor: the anchors of the part in document order, the tag of
\* the extractor called, and the list it returns
VARIABLES anchor_nodes, sort_tag, sort_result

\* an extractor called on a container: the parts the container holds, the
\* extractor, and how the call ended
VARIABLES parts_present, parts_extractor, parts_outcome

\* the layout of a request: the cells of columns A, D and F of the worksheet,
\* ws.max_column, the layout detected, the target rows collected, and the
\* layout lines of the summary
VARIABLES ws_cells, ws_max_column, layout, collected_rows, layout_summary

\* _row_from_y_emu(ws, y_emu): whether a worksheet is given, the explicit
\* heights of its rows, its default row height, the offset, and the row returned
VARIABLES ws_given, row_heights, default_row_height, y_emu, y_row

\* _normalize_ext(ext, data): the declared extension, the bytes of the image,
\* the format returned, and the format of the image as it is written
VARIABLES ext_arg, ext_data, ext_result, out_ext

\* the extractor calls of a request on a package with malformed parts: the
\* parts that are not well-formed XML, whether the sheet names its drawing in
\* a <drawing> element, and the parts parsed and lists found so far
VARIABLES xml_malformed, xml_drawing_ref, xml_run

\* _anchor_row_col_from_node(anchor, start_row): the anchor node and the pair
\* returned
VARIABLES anchor_node, anchor_rc

\* _extract_dispimg_row_map: the cells of the sheet part and the row map
\* returned
VARIABLES rowmap_cells, rowmap_result

\* _next_unique_filename on the set seen_filenames of a request: the set, and
\* the calls made with the name each returned
VARIABLES seen_filenames, name_calls

\* the locals of extract_images, pc apart
reqFields == <<target_rows, openpyxl_entries, drawing_entries, related_anchor_entries,
               dispimg_entries, cellimages_anchor_entries, media_images,
               source_entries, extraction_mode, mapped_rows, mapping_info,
               non_target_anchor_rows, skipped_reasons, written,
               extracted_count, skipped_count, summary, response>>

reqVars == <<pc, reqFields>>

\* the variables that no step of extract_images touches
auxVars ==
    <<base_path, target, resolved,
      sheet_cells, cellimage_nodes, disp_start_row, disp_result,
      anchor_nodes, sort_tag, sort_result,
      parts_present, parts_extractor, parts_outcome,
      ws_cells, ws_max_column, layout, collected_rows, layout_summary,
      ws_given, row_heights, default_row_height, y_emu, y_row,
      ext_arg, ext_data, ext_result, out_ext,
      xml_malformed, xml_drawing_ref, xml_run,
      anchor_node, anchor_rc,
      rowmap_cells, rowmap_result,
      seen_filenames, name_calls>>

\* the calls other than the one named have not been made: no argument, no
\* result
AuxIdleExcept(call) ==
    /\ IF call = "path" THEN TRUE
       ELSE /\ base_path = <<>>
            /\ target = <<>>
            /\ resolved = <<>>
    /\ IF call = "disp" THEN TRUE
       ELSE /\ sheet_cells = <<>>
            /\ cellimage_nodes = <<>>
            /\ disp_start_row = 0
            /\ disp_result = <<>>
    /\ IF call = "sort" THEN TRUE
       ELSE /\ anchor_nodes = <<>>
            /\ sort_tag = ""
            /\ sort_result = <<>>
    /\ IF call = "parts" THEN TRUE
       ELSE /\ parts_present = {}
            /\ parts_extractor = ""
            /\ parts_outcome = [raised |-> FALSE, entries |-> <<>>]
    /\ IF call = "layout" THEN TRUE
       ELSE /\ ws_cells = <<>>
            /\ ws_max_column = 0
            /\ layout = [image_col |-> 0, vendor_col |-> 0, material_col |-> 0, start_row |-> 0,
                   image_header_row |-> 0, vendor_header_row |-> 0, material_header_row |-> 0]
            /\ collected_rows = <<>>
            /\ layout_summary = <<>>
    /\ IF call = "rowY" THEN TRUE
       ELSE /\ ws_given = FALSE
            /\ row_heights = <<>>
            /\ default_row_height = <<>>
            /\ y_emu = <<>>
            /\ y_row = <<>>
    /\ IF call = "ext" THEN TRUE
       ELSE /\ ext_arg = <<>>
            /\ ext_data = <<>>
            /\ ext_result = <<>>
            /\ out_ext = <<>>
    /\ IF call = "xml" THEN TRUE
       ELSE /\ xml_malformed = {}
            /\ xml_drawing_ref = FALSE
            /\ xml_run = [parsed |-> {}, found |-> <<>>]
    /\ IF call = "anchor" THEN TRUE
       ELSE /\ anchor_node = <<>>
            /\ anchor_rc = <<>>
    /\ IF call = "rowmap" THEN TRUE
       ELSE /\ rowmap_cells = <<>>
            /\ rowmap_result = <<>>
    /\ IF call = "names" THEN TRUE
       ELSE /\ seen_filenames = {}
            /\ name_calls = <<>>

AuxIdle == AuxIdleExcept("")

\* the variables of the calls other than the one named stay as they are
AuxUnchangedExcept(call) ==
    /\ IF call = "path" THEN TRUE
       ELSE UNCHANGED <<base_path, target, resolved>>
    /\ IF call = "disp" THEN TRUE
       ELSE UNCHANGED <<sheet_cells, cellimage_nodes, disp_start_row, disp_result>>
    /\ IF call = "sort" THEN TRUE
       ELSE UNCHANGED <<anchor_nodes, sort_tag, sort_result>>
    /\ IF call = "parts" THEN TRUE
       ELSE UNCHANGED <<parts_present, parts_extractor, parts_outcome>>
    /\ IF call = "layout" THEN TRUE
       ELSE UNCHANGED <<ws_cells, ws_max_column, layout, collected_rows, layout_summary>>
    /\ IF call = "rowY" THEN TRUE
       ELSE UNCHANGED <<ws_given, row_heights, default_row_height, y_emu, y_row>>
    /\ IF call = "ext" THEN TRUE
       ELSE UNCHANGED <<ext_arg, ext_data, ext_result, out_ext>>
    /\ IF call = "xml" THEN TRUE
       ELSE UNCHANGED <<xml_malformed, xml_drawing_ref, xml_run>>
    /\ IF call = "anchor" THEN TRUE
       ELSE UNCHANGED <<anchor_node, anchor_rc>>
    /\ IF call = "rowmap" THEN TRUE
       ELSE UNCHANGED <<rowmap_cells, rowmap_result>>
    /\ IF call = "names" THEN TRUE
       ELSE UNCHANGED <<seen_filenames, name_calls>>

vars == <<reqVars, auxVars>>

---------------------------------------------------------------------------
(* Bounds of the model *)

\* rows of the worksheet are 1..MaxRow
MaxRow == 3
\* anchors found in the package, summed over the five anchor extractors
MaxAnchors == 2
\* media parts under xl/media/
MaxMedia == 2

---------------------------------------------------------------------------
(* Program constants *)

\* the sort key's stand-in for a missing row: item.get("row") or 10**9
SortInfinity == 1000000000
\* rows shown in a skipped-reason message: missing_rows[:20]
PreviewLimit == 20
\* reasons joined into the error message: skipped_reasons[:3]
ErrorReasonLimit == 3
\* FIXED_IMAGE_COL = 1  (column A)
FIXED_IMAGE_COL == 1

---------------------------------------------------------------------------
(* Entries *)

\* Python's None for an entry's row; a present row r is <<r>>
None == <<>>

HasRow(e) == e.row # None
RowOf(e) == e.row[1]

Min(a, b) == IF a < b THEN a ELSE b

Take(s, n) == SubSeq(s, 1, Min(Len(s), n))

Range(s) == {s[i] : i \in 1..Len(s)}

\* sorted(...) of a list of rows
RECURSIVE InsertRow(_, _)
InsertRow(r, s) ==
    IF s = <<>> THEN <<r>>
    ELSE IF r < Head(s) THEN <<r>> \o s
    ELSE <<Head(s)>> \o InsertRow(r, Tail(s))

RECURSIVE SortedRows(_)
SortedRows(s) ==
    IF s = <<>> THEN <<>> ELSE InsertRow(Head(s), SortedRows(Tail(s)))

\* sorted(set) of a set of rows
RECURSIVE SortedSet(_)
SortedSet(S) ==
    IF S = {} THEN <<>>
    ELSE LET m == CHOOSE x \in S : \A y \in S : x <= y
         IN  <<m>> \o SortedSet(S \ {m})

\* key=lambda item: (item.get("row") or 10**9, ..., item["source"])
RowKey(e) == IF HasRow(e) /\ RowOf(e) # 0 THEN RowOf(e) ELSE SortInfinity

KeyLess(a, b) ==
    \/ RowKey(a) < RowKey(b)
    \/ RowKey(a) = RowKey(b) /\ a.source[2] < b.source[2]

RECURSIVE InsertEntry(_, _)
InsertEntry(e, s) ==
    IF s = <<>> THEN <<e>>
    ELSE IF KeyLess(e, Head(s)) THEN <<e>> \o s
    ELSE <<Head(s)>> \o InsertEntry(e, Tail(s))

\* entries.sort(key=...)
RECURSIVE SortEntries(_)
SortEntries(s) ==
    IF s = <<>> THEN <<>> ELSE InsertEntry(Head(s), SortEntries(Tail(s)))

---------------------------------------------------------------------------
(* What the extractors can return *)

\* _collect_target_rows: range(start_row, max_row + 1) filtered by _row_code,
\* so the list is strictly ascending
TargetRowLists == {SortedSet(S) : S \in SUBSET (1..MaxRow)}

\* An extractor that appends one entry per anchor in document order, numbers
\* them "<tag>:<idx>" and sorts the list: rows[i] is the row of the i-th
\* appended entry.
AnchorEntries(tag, rows) ==
    SortEntries([i \in 1..Len(rows) |-> [row |-> rows[i], source |-> <<tag, i>>]])

AnchorLists(tag, rowValues, n) ==
    UNION {{AnchorEntries(tag, rows) : rows \in [1..k -> rowValues]} : k \in 0..n}

RowBearing == {<<r>> : r \in 1..MaxRow}

\* row, col = _anchor_row_col(img): the row may be None
OpenpyxlLists(n) == AnchorLists("openpyxl", RowBearing \cup {None}, n)

\* row = None unless the anchor node gives one; the entry is appended anyway
DrawingLists(n) == AnchorLists("drawing", RowBearing \cup {None}, n)

\* "if row is None: continue" precedes the append
SheetRelatedLists(n) == AnchorLists("sheet_related_anchor", RowBearing, n)

\* "if row is None: continue" precedes the append
CellimagesAnchorLists(n) == AnchorLists("cellimages_anchor", RowBearing, n)

\* for row_idx in sorted(row_key_map.keys()): one entry per row whose key
\* resolved, in ascending row order, never sorted again.  The key that tags
\* the source is a label; each row gets its own.
DispimgEntries(S) ==
    LET rows == SortedSet(S)
    IN  [i \in 1..Len(rows) |-> [row |-> <<rows[i]>>, source |-> <<"dispimg", rows[i]>>]]

DispimgLists(n) ==
    {DispimgEntries(S) : S \in {T \in SUBSET (1..MaxRow) : Cardinality(T) <= n}}

\* media.append({"source", "ext", "data"}): no row, no column
MediaLists == {[i \in 1..k |-> [source |-> <<"media", i>>]] : k \in 0..MaxMedia}

---------------------------------------------------------------------------
(* _assign_entries_to_rows *)

RowIndexes(entries, r) ==
    {i \in 1..Len(entries) : HasRow(entries[i]) /\ RowOf(entries[i]) = r}

\* StrictMap keeping, for a row, the first entry of the list
StrictMapFirstKept(entries) ==
    LET keys == {RowOf(entries[i]) : i \in {j \in 1..Len(entries) : HasRow(entries[j])}}
    IN  [r \in keys |->
            entries[CHOOSE i \in RowIndexes(entries, r) :
                        \A j \in RowIndexes(entries, r) : i <= j]]

\* strict_map = {entry["row"]: entry for entry in entries
\*               if entry.get("row") is not None}
\* A dict comprehension assigns key by key: a later entry of the same row
\* replaces the earlier one.
StrictMap(entries) ==
    LET keys == {RowOf(entries[i]) : i \in {j \in 1..Len(entries) : HasRow(entries[j])}}
    IN  [r \in keys |->
            entries[CHOOSE i \in RowIndexes(entries, r) :
                        \A j \in RowIndexes(entries, r) : j <= i]]

\* the loop over sorted(target_rows): the rows with an entry, in order
RECURSIVE MappedPairs(_, _)
MappedPairs(rows, strict_map) ==
    IF rows = <<>> THEN <<>>
    ELSE IF Head(rows) \in DOMAIN strict_map
         THEN <<[row |-> Head(rows), entry |-> strict_map[Head(rows)]]>>
              \o MappedPairs(Tail(rows), strict_map)
         ELSE MappedPairs(Tail(rows), strict_map)

\* MissingRows with the loop left at the first row that has no entry
RECURSIVE MissingRowsStopAtFirst(_, _)
MissingRowsStopAtFirst(rows, strict_map) ==
    IF rows = <<>> THEN <<>>
    ELSE IF Head(rows) \in DOMAIN strict_map
         THEN MissingRowsStopAtFirst(Tail(rows), strict_map)
         ELSE <<Head(rows)>>

\* the loop over sorted(target_rows): the rows without an entry, in order
RECURSIVE MissingRows(_, _)
MissingRows(rows, strict_map) ==
    IF rows = <<>> THEN <<>>
    ELSE IF Head(rows) \in DOMAIN strict_map
         THEN MissingRows(Tail(rows), strict_map)
         ELSE <<Head(rows)>> \o MissingRows(Tail(rows), strict_map)

\* AssignEntriesToRows pairing the i-th target row with the i-th entry
\* (an order-based assignment)
AssignEntriesByOrder(rows, entries, image_col) ==
    LET sorted == SortedRows(rows)
        n == Min(Len(sorted), Len(entries))
    IN  [mapped |-> [i \in 1..n |-> [row |-> sorted[i], entry |-> entries[i]]],
         diagnostics |-> [strategy |-> "strict_coordinate",
                          exact_row_matches |-> n,
                          strict_col_matches |-> n,
                          missing_rows |-> SubSeq(sorted, n + 1, Len(sorted))]]

AssignEntriesToRows(rows, entries, image_col) ==
    IF rows = <<>> \/ entries = <<>>
    THEN [mapped |-> <<>>,
          diagnostics |-> [strategy |-> "strict_coordinate",
                           exact_row_matches |-> 0,
                           strict_col_matches |-> 0,
                           missing_rows |-> SortedRows(rows)]]
    ELSE LET strict_map == StrictMap(entries)
             mapped == MappedPairs(SortedRows(rows), strict_map)
         IN  [mapped |-> mapped,
              diagnostics |-> [strategy |-> "strict_coordinate",
                               exact_row_matches |-> Len(mapped),
                               strict_col_matches |-> Len(mapped),
                               missing_rows |-> MissingRows(SortedRows(rows), strict_map)]]

---------------------------------------------------------------------------
(* extract_images: the steps of one request *)

UsedAnchors ==
    Len(openpyxl_entries) + Len(drawing_entries) + Len(related_anchor_entries)
    + Len(dispimg_entries) + Len(cellimages_anchor_entries)

\* one line of skipped_reasons: its kind and the rows it names
Reason(kind, rows) ==
    [kind |-> kind, rows |-> Take(rows, PreviewLimit), more |-> Len(rows) > PreviewLimit]

\* the locals of extract_images before its first step
ReqInit ==
    /\ target_rows = <<>>
    /\ openpyxl_entries = <<>>
    /\ drawing_entries = <<>>
    /\ related_anchor_entries = <<>>
    /\ dispimg_entries = <<>>
    /\ cellimages_anchor_entries = <<>>
    /\ media_images = <<>>
    /\ source_entries = <<>>
    /\ extraction_mode = "none"
    /\ mapped_rows = <<>>
    /\ mapping_info = [strategy |-> "none", exact_row_matches |-> 0,
                       strict_col_matches |-> 0, missing_rows |-> <<>>]
    /\ non_target_anchor_rows = <<>>
    /\ skipped_reasons = <<>>
    /\ written = <<>>
    /\ extracted_count = 0
    /\ skipped_count = 0
    /\ summary = <<>>
    /\ response = [status |-> 0, zip |-> FALSE, message |-> <<>>]

Init ==
    /\ pc = "collect"
    /\ ReqInit
    /\ AuxIdle

\* target_rows = _collect_target_rows(ws, start_row, vendor_col, material_col)
CollectTargetRows ==
    /\ pc = "collect"
    /\ \E rows \in TargetRowLists : target_rows' = rows
    /\ pc' = "openpyxl"
    /\ UNCHANGED auxVars
    /\ UNCHANGED <<openpyxl_entries, drawing_entries, related_anchor_entries,
                   dispimg_entries, cellimages_anchor_entries, media_images,
                   source_entries, extraction_mode, mapped_rows, mapping_info,
                   non_target_anchor_rows, skipped_reasons, written,
                   extracted_count, skipped_count, summary, response>>

\* openpyxl_entries = _extract_openpyxl_images(openpyxl_images)
ExtractOpenpyxl ==
    /\ pc = "openpyxl"
    /\ \E l \in OpenpyxlLists(MaxAnchors - UsedAnchors) : openpyxl_entries' = l
    /\ pc' = "drawing"
    /\ UNCHANGED auxVars
    /\ UNCHANGED <<target_rows, drawing_entries, related_anchor_entries,
                   dispimg_entries, cellimages_anchor_entries, media_images,
                   source_entries, extraction_mode, mapped_rows, mapping_info,
                   non_target_anchor_rows, skipped_reasons, written,
                   extracted_count, skipped_count, summary, response>>

\* drawing_entries = _extract_drawing_images_for_sheet(file_bytes, sheet_name, ws=ws)
ExtractDrawing ==
    /\ pc = "drawing"
    /\ \E l \in DrawingLists(MaxAnchors - UsedAnchors) : drawing_entries' = l
    /\ pc' = "related"
    /\ UNCHANGED auxVars
    /\ UNCHANGED <<target_rows, openpyxl_entries, related_anchor_entries,
                   dispimg_entries, cellimages_anchor_entries, media_images,
                   source_entries, extraction_mode, mapped_rows, mapping_info,
                   non_target_anchor_rows, skipped_reasons, written,
                   extracted_count, skipped_count, summary, response>>

\* related_anchor_entries = _extract_sheet_related_anchor_images(...)
ExtractSheetRelated ==
    /\ pc = "related"
    /\ \E l \in SheetRelatedLists(MaxAnchors - UsedAnchors) : related_anchor_entries' = l
    /\ pc' = "dispimg"
    /\ UNCHANGED auxVars
    /\ UNCHANGED <<target_rows, openpyxl_entries, drawing_entries,
                   dispimg_entries, cellimages_anchor_entries, media_images,
                   source_entries, extraction_mode, mapped_rows, mapping_info,
                   non_target_anchor_rows, skipped_reasons, written,
                   extracted_count, skipped_count, summary, response>>

\* dispimg_entries = _extract_dispimg_entries(file_bytes, sheet_name, image_col, start_row)
ExtractDispimg ==
    /\ pc = "dispimg"
    /\ \E l \in DispimgLists(MaxAnchors - UsedAnchors) : dispimg_entries' = l
    /\ pc' = "cellimages"
    /\ UNCHANGED auxVars
    /\ UNCHANGED <<target_rows, openpyxl_entries, drawing_entries,
                   related_anchor_entries, cellimages_anchor_entries, media_images,
                   source_entries, extraction_mode, mapped_rows, mapping_info,
                   non_target_anchor_rows, skipped_reasons, written,
                   extracted_count, skipped_count, summary, response>>

\* cellimages_anchor_entries = _extract_cellimages_anchor_entries(...)
ExtractCellimagesAnchor ==
    /\ pc = "cellimages"
    /\ \E l \in CellimagesAnchorLists(MaxAnchors - UsedAnchors) :
           cellimages_anchor_entries' = l
    /\ pc' = "media"
    /\ UNCHANGED auxVars
    /\ UNCHANGED <<target_rows, openpyxl_entries, drawing_entries,
                   related_anchor_entries, dispimg_entries, media_images,
                   source_entries, extraction_mode, mapped_rows, mapping_info,
                   non_target_anchor_rows, skipped_reasons, written,
                   extracted_count, skipped_count, summary, response>>

\* media_images = _extract_media_images(file_bytes)
ExtractMedia ==
    /\ pc = "media"
    /\ \E l \in MediaLists : media_images' = l
    /\ pc' = "select"
    /\ UNCHANGED auxVars
    /\ UNCHANGED <<target_rows, openpyxl_entries, drawing_entries,
                   related_anchor_entries, dispimg_entries, cellimages_anchor_entries,
                   source_entries, extraction_mode, mapped_rows, mapping_info,
                   non_target_anchor_rows, skipped_reasons, written,
                   extracted_count, skipped_count, summary, response>>

\* SelectedSource with the sheet-related drawing anchors tested before the
\* formula-key list
SelectedSourceDrawingFirst(dispimg, related, cellimages, drawing, openpyxl) ==
    IF related # <<>>
    THEN [entries |-> related, mode |-> "sheet_related_anchor"]
    ELSE IF dispimg # <<>>
    THEN [entries |-> dispimg, mode |-> "dispimg_cellimages"]
    ELSE IF cellimages # <<>>
    THEN [entries |-> cellimages, mode |-> "cellimages_anchor"]
    ELSE IF drawing # <<>>
    THEN [entries |-> drawing, mode |-> "drawing_anchor"]
    ELSE IF openpyxl # <<>>
    THEN [entries |-> openpyxl, mode |-> "openpyxl_anchor"]
    ELSE [entries |-> <<>>, mode |-> "none"]

\* SelectedSource merging the lower-priority lists behind the first one
SelectedSourceMerged(dispimg, related, cellimages, drawing, openpyxl) ==
    [entries |-> dispimg \o related \o cellimages \o drawing \o openpyxl,
     mode |-> IF dispimg # <<>> THEN "dispimg_cellimages"
              ELSE IF related # <<>> THEN "sheet_related_anchor"
              ELSE IF cellimages # <<>> THEN "cellimages_anchor"
              ELSE IF drawing # <<>> THEN "drawing_anchor"
              ELSE IF openpyxl # <<>> THEN "openpyxl_anchor"
              ELSE "none"]

\* the if/elif chain over the five lists: the first list that is not empty
SelectedSource(dispimg, related, cellimages, drawing, openpyxl) ==
    IF dispimg # <<>>
    THEN [entries |-> dispimg, mode |-> "dispimg_cellimages"]
    ELSE IF related # <<>>
    THEN [entries |-> related, mode |-> "sheet_related_anchor"]
    ELSE IF cellimages # <<>>
    THEN [entries |-> cellimages, mode |-> "cellimages_anchor"]
    ELSE IF drawing # <<>>
    THEN [entries |-> drawing, mode |-> "drawing_anchor"]
    ELSE IF openpyxl # <<>>
    THEN [entries |-> openpyxl, mode |-> "openpyxl_anchor"]
    ELSE [entries |-> <<>>, mode |-> "none"]

SelectSource ==
    /\ pc = "select"
    /\ LET sel == SelectedSource(dispimg_entries, related_anchor_entries,
                                 cellimages_anchor_entries, drawing_entries,
                                 openpyxl_entries)
       IN  /\ source_entries' = sel.entries
           /\ extraction_mode' = sel.mode
    /\ pc' = "branch"
    /\ UNCHANGED auxVars
    /\ UNCHANGED <<target_rows, openpyxl_entries, drawing_entries,
                   related_anchor_entries, dispimg_entries, cellimages_anchor_entries,
                   media_images, mapped_rows, mapping_info,
                   non_target_anchor_rows, skipped_reasons, written,
                   extracted_count, skipped_count, summary, response>>

\* WrittenForRows writing no file for the last pair
WrittenForRowsButLast(mapped) ==
    [i \in 1..(Len(mapped) - 1) |-> [row |-> <<mapped[i].row>>, source |-> mapped[i].entry.source]]

\* _write_entry_for_row(row_idx, entry) for every mapped pair: one file per
\* pair, named after the code of row row_idx
WrittenForRows(mapped) ==
    [i \in 1..Len(mapped) |-> [row |-> <<mapped[i].row>>, source |-> mapped[i].entry.source]]

\* "Image_<idx>" files: named by position, tied to no row
WrittenByIndex(items) ==
    [i \in 1..Len(items) |-> [row |-> None, source |-> items[i].source]]

\* _write_entry_for_row notes every written row whose code came from the
\* material column; mat is the set of those rows
RECURSIVE MaterialNotes(_, _)
MaterialNotes(mapped, mat) ==
    IF mapped = <<>> THEN <<>>
    ELSE (IF Head(mapped).row \in mat
          THEN <<Reason("material_fallback", <<Head(mapped).row>>)>>
          ELSE <<>>)
         \o MaterialNotes(Tail(mapped), mat)

\* NonTargetAnchorRows reporting only the anchors below the last target row
NonTargetAnchorRowsBelowOnly(rows, entries) ==
    SortedSet({RowOf(entries[i]) :
                 i \in {j \in 1..Len(entries) :
                          HasRow(entries[j])
                          /\ \A k \in 1..Len(rows) : RowOf(entries[j]) > rows[k]}})

\* non_target_anchor_rows = sorted({entry.get("row") for entry in source_entries
\*     if entry.get("row") is not None and entry.get("row") not in target_set})
NonTargetAnchorRows(rows, entries) ==
    SortedSet({RowOf(entries[i]) :
                 i \in {j \in 1..Len(entries) :
                          HasRow(entries[j]) /\ RowOf(entries[j]) \notin Range(rows)}})

\* the summary.txt lines that report the mapping
SummaryOf(mode, info, extracted, skipped, reasons) ==
    [extraction_mode |-> mode,
     target_rows |-> Len(target_rows),
     dispimg_entries |-> Len(dispimg_entries),
     related_anchor_entries |-> Len(related_anchor_entries),
     cellimages_anchor_entries |-> Len(cellimages_anchor_entries),
     openpyxl_entries |-> Len(openpyxl_entries),
     drawing_entries |-> Len(drawing_entries),
     media_images |-> Len(media_images),
     strategy |-> info.strategy,
     exact_row_matches |-> info.exact_row_matches,
     missing_rows |-> Len(info.missing_rows),
     extracted |-> extracted,
     skipped |-> skipped,
     details |-> reasons]

\* if source_entries and target_rows: strict same-row mapping
StrictMapping ==
    /\ pc = "branch"
    /\ source_entries # <<>> /\ target_rows # <<>>
    /\ LET res == AssignEntriesToRows(target_rows, source_entries, FIXED_IMAGE_COL)
           extra == NonTargetAnchorRows(target_rows, source_entries)
           missing == res.diagnostics.missing_rows
           mode == IF missing # <<>> THEN "strict_row_locked_missing_rows"
                   ELSE extraction_mode
       IN  \E mat \in SUBSET {res.mapped[i].row : i \in 1..Len(res.mapped)} :
             LET reasons ==
                     skipped_reasons
                     \o MaterialNotes(res.mapped, mat)
                     \o (IF extra # <<>> THEN <<Reason("non_target_rows", extra)>> ELSE <<>>)
                     \o (IF missing # <<>> THEN <<Reason("missing_rows", missing)>> ELSE <<>>)
             IN  /\ mapped_rows' = res.mapped
                 /\ mapping_info' = res.diagnostics
                 /\ written' = written \o WrittenForRows(res.mapped)
                 /\ extracted_count' = extracted_count + Len(res.mapped)
                 /\ non_target_anchor_rows' = extra
                 /\ skipped_reasons' = reasons
                 /\ extraction_mode' = mode
                 /\ skipped_count' = skipped_count + Len(missing)
                 /\ summary' = SummaryOf(mode, res.diagnostics,
                                         extracted_count + Len(res.mapped),
                                         skipped_count + Len(missing), reasons)
    /\ pc' = "respond"
    /\ UNCHANGED auxVars
    /\ UNCHANGED <<target_rows, openpyxl_entries, drawing_entries,
                   related_anchor_entries, dispimg_entries, cellimages_anchor_entries,
                   media_images, source_entries, response>>

\* NoSourceOutcome with a count-based fallback: the media parts are written
\* for the target rows, in order, when there are as many of them
NoSourceOutcomeCountFallback(rows, media) ==
    IF Len(media) = Len(rows)
    THEN [written |-> [i \in 1..Len(rows) |->
                          [row |-> <<SortedRows(rows)[i]>>, source |-> media[i].source]],
          mode |-> "xlsx_media_by_count",
          info |-> [strategy |-> "media_by_count",
                    exact_row_matches |-> 0,
                    strict_col_matches |-> 0,
                    missing_rows |-> <<>>],
          skipped |-> 0,
          reasons |-> <<>>]
    ELSE [written |-> <<>>,
          mode |-> "strict_row_locked_no_row_anchors",
          info |-> [strategy |-> "strict_only_no_source_entries",
                    exact_row_matches |-> 0,
                    strict_col_matches |-> 0,
                    missing_rows |-> SortedRows(rows)],
          skipped |-> Len(rows),
          reasons |-> <<Reason("no_row_anchors", <<>>), Reason("diagnostics", <<>>)>>]

\* NoSourceOutcome that leaves mapping_info["missing_rows"] as initialised
NoSourceOutcomeNoMissing(rows, media) ==
    [written |-> <<>>,
     mode |-> "strict_row_locked_no_row_anchors",
     info |-> [strategy |-> "strict_only_no_source_entries",
               exact_row_matches |-> 0,
               strict_col_matches |-> 0,
               missing_rows |-> <<>>],
     skipped |-> Len(rows),
     reasons |-> <<Reason("no_row_anchors", <<>>), Reason("diagnostics", <<>>)>>]

\* elif target_rows: no list was selected.  Every target row is reported
\* missing and nothing is written, whatever media_images holds.
NoSourceOutcome(rows, media) ==
    [written |-> <<>>,
     mode |-> "strict_row_locked_no_row_anchors",
     info |-> [strategy |-> "strict_only_no_source_entries",
               exact_row_matches |-> 0,
               strict_col_matches |-> 0,
               missing_rows |-> SortedRows(rows)],
     skipped |-> Len(rows),
     reasons |-> <<Reason("no_row_anchors", <<>>), Reason("diagnostics", <<>>)>>]

NoSourceEntries ==
    /\ pc = "branch"
    /\ ~(source_entries # <<>> /\ target_rows # <<>>)
    /\ target_rows # <<>>
    /\ LET out == NoSourceOutcome(target_rows, media_images)
       IN  /\ extraction_mode' = out.mode
           /\ mapping_info' = out.info
           /\ skipped_count' = skipped_count + out.skipped
           /\ skipped_reasons' = skipped_reasons \o out.reasons
           /\ written' = written \o out.written
           /\ extracted_count' = extracted_count + Len(out.written)
           /\ summary' = SummaryOf(out.mode, out.info,
                                   extracted_count + Len(out.written),
                                   skipped_count + out.skipped,
                                   skipped_reasons \o out.reasons)
    /\ pc' = "respond"
    /\ UNCHANGED auxVars
    /\ UNCHANGED <<target_rows, openpyxl_entries, drawing_entries,
                   related_anchor_entries, dispimg_entries, cellimages_anchor_entries,
                   media_images, source_entries, mapped_rows,
                   non_target_anchor_rows, response>>

\* elif source_entries: no target rows, every discovered image is exported
ExportSourceEntries ==
    /\ pc = "branch"
    /\ target_rows = <<>>
    /\ source_entries # <<>>
    /\ written' = written \o WrittenByIndex(source_entries)
    /\ extracted_count' = extracted_count + Len(source_entries)
    /\ summary' = SummaryOf(extraction_mode, mapping_info,
                            extracted_count + Len(source_entries),
                            skipped_count, skipped_reasons)
    /\ pc' = "respond"
    /\ UNCHANGED auxVars
    /\ UNCHANGED <<target_rows, openpyxl_entries, drawing_entries,
                   related_anchor_entries, dispimg_entries, cellimages_anchor_entries,
                   media_images, source_entries, extraction_mode, mapped_rows,
                   mapping_info, non_target_anchor_rows, skipped_reasons,
                   skipped_count, response>>

\* elif media_images and not target_rows: the media parts are exported
ExportMedia ==
    /\ pc = "branch"
    /\ target_rows = <<>>
    /\ source_entries = <<>>
    /\ media_images # <<>>
    /\ extraction_mode' = "xlsx_media_no_target_rows"
    /\ written' = written \o WrittenByIndex(media_images)
    /\ extracted_count' = extracted_count + Len(media_images)
    /\ summary' = SummaryOf("xlsx_media_no_target_rows", mapping_info,
                            extracted_count + Len(media_images),
                            skipped_count, skipped_reasons)
    /\ pc' = "respond"
    /\ UNCHANGED auxVars
    /\ UNCHANGED <<target_rows, openpyxl_entries, drawing_entries,
                   related_anchor_entries, dispimg_entries, cellimages_anchor_entries,
                   media_images, source_entries, mapped_rows, mapping_info,
                   non_target_anchor_rows, skipped_reasons, skipped_count, response>>

\* no branch of the chain applies: only the summary is written
NothingFound ==
    /\ pc = "branch"
    /\ target_rows = <<>>
    /\ source_entries = <<>>
    /\ media_images = <<>>
    /\ summary' = SummaryOf(extraction_mode, mapping_info, extracted_count,
                            skipped_count, skipped_reasons)
    /\ pc' = "respond"
    /\ UNCHANGED auxVars
    /\ UNCHANGED <<target_rows, openpyxl_entries, drawing_entries,
                   related_anchor_entries, dispimg_entries, cellimages_anchor_entries,
                   media_images, source_entries, extraction_mode, mapped_rows,
                   mapping_info, non_target_anchor_rows, skipped_reasons, written,
                   extracted_count, skipped_count, response>>

\* if extracted_count == 0: the zip is removed and a 400 error is returned;
\* otherwise the zip is sent
\* ResponseOf sending the zip whatever was extracted
ResponseAlwaysZip(extracted, reasons) ==
    [status |-> 200, zip |-> TRUE, message |-> <<>>]

ResponseOf(extracted, reasons) ==
    IF extracted = 0
    THEN [status |-> 400, zip |-> FALSE, message |-> Take(reasons, ErrorReasonLimit)]
    ELSE [status |-> 200, zip |-> TRUE, message |-> <<>>]

Respond ==
    /\ pc = "respond"
    /\ response' = ResponseOf(extracted_count, skipped_reasons)
    /\ pc' = "done"
    /\ UNCHANGED auxVars
    /\ UNCHANGED <<target_rows, openpyxl_entries, drawing_entries,
                   related_anchor_entries, dispimg_entries, cellimages_anchor_entries,
                   media_images, source_entries, extraction_mode, mapped_rows,
                   mapping_info, non_target_anchor_rows, skipped_reasons, written,
                   extracted_count, skipped_count, summary>>

Next ==
    \/ CollectTargetRows
    \/ ExtractOpenpyxl
    \/ ExtractDrawing
    \/ ExtractSheetRelated
    \/ ExtractDispimg
    \/ ExtractCellimagesAnchor
    \/ ExtractMedia
    \/ SelectSource
    \/ StrictMapping
    \/ NoSourceEntries
    \/ ExportSourceEntries
    \/ ExportMedia
    \/ NothingFound
    \/ Respond

Spec == Init /\ [][Next]_vars

---------------------------------------------------------------------------
(* Properties of the reconciliation *)

AfterSelect == pc \in {"branch", "respond", "done"}
AfterBranch == pc \in {"respond", "done"}

MatchedRows == {mapped_rows[i].row : i \in 1..Len(mapped_rows)}
MissingRowSet == Range(mapping_info.missing_rows)
TargetRowSet == Range(target_rows)

\* the rows at which a list has an anchor
AnchorRows(entries) ==
    {RowOf(entries[i]) : i \in {j \in 1..Len(entries) : HasRow(entries[j])}}

HasRowBearing(entries) == \E i \in 1..Len(entries) : HasRow(entries[i])

IsAscending(rows) == \A i \in 1..Len(rows) : \A j \in 1..Len(rows) : i < j => rows[i] < rows[j]

WrittenSources == {written[i].source : i \in 1..Len(written)}

\* the five lists in the priority order of the chain
PriorityLists ==
    <<dispimg_entries, related_anchor_entries, cellimages_anchor_entries,
      drawing_entries, openpyxl_entries>>

\* C1: every pair (row, anchor) the reconciler returns has anchor.row = row
\* and row among the target rows; every file written for a row holds the
\* anchor of that very row.
Thm_C1_StrictSameRow ==
    /\ \A i \in 1..Len(mapped_rows) :
          /\ HasRow(mapped_rows[i].entry)
          /\ RowOf(mapped_rows[i].entry) = mapped_rows[i].row
          /\ mapped_rows[i].row \in TargetRowSet
          /\ mapped_rows[i].entry \in Range(source_entries)
    /\ \A i \in 1..Len(written) :
          written[i].row # None =>
             \E k \in 1..Len(source_entries) :
                /\ source_entries[k].source = written[i].source
                /\ source_entries[k].row = written[i].row

\* a request that matched a row, left a target row without image and found
\* an anchor on a row that is no target row
Wit_C1_MatchedMissingAndExtra ==
    /\ pc = "done"
    /\ mapped_rows # <<>>
    /\ mapping_info.missing_rows # <<>>
    /\ non_target_anchor_rows # <<>>

\* C2: the target rows are split into the matched rows (exactly those at
\* which the selected list has an anchor) and missing_rows; the two are
\* disjoint, ascending, and together they are the target rows.
Thm_C2_Partition ==
    AfterBranch =>
       /\ \A r \in TargetRowSet : r \in MatchedRows <=> r \in AnchorRows(source_entries)
       /\ \A r \in TargetRowSet : r \in MissingRowSet <=> r \notin AnchorRows(source_entries)
       /\ MatchedRows \cap MissingRowSet = {}
       /\ MatchedRows \cup MissingRowSet = TargetRowSet
       /\ IsAscending([i \in 1..Len(mapped_rows) |-> mapped_rows[i].row])
       /\ IsAscending(mapping_info.missing_rows)
       /\ (\A r \in TargetRowSet : Cardinality(RowIndexes(source_entries, r)) = 1)
             => MatchedRows = TargetRowSet /\ mapping_info.missing_rows = <<>>

\* two target rows, each with exactly one anchor of the selected list, and
\* both matched
Wit_C2_OneAnchorPerRow ==
    /\ pc = "done"
    /\ Len(target_rows) = 2
    /\ \A r \in TargetRowSet : Cardinality(RowIndexes(source_entries, r)) = 1
    /\ MatchedRows = TargetRowSet
    /\ mapping_info.missing_rows = <<>>

\* C3: the anchor matched to a row is the first anchor of that row in the
\* selected list.
CE_C3_FirstOccurrenceWins ==
    \A i \in 1..Len(mapped_rows) :
       \A k \in RowIndexes(source_entries, mapped_rows[i].row) :
          (\A j \in RowIndexes(source_entries, mapped_rows[i].row) : k <= j)
             => mapped_rows[i].entry = source_entries[k]

\* C4: every anchor of the selected list that shares its row with an earlier
\* anchor is named by a line of the diagnostics (any line that names its row,
\* the note on the row's file name aside).
CE_C4_DuplicatesReported ==
    (pc = "done" /\ mapping_info.strategy = "strict_coordinate") =>
       \A i \in 1..Len(source_entries) :
          (HasRow(source_entries[i])
           /\ \E j \in 1..(i - 1) : source_entries[j].row = source_entries[i].row)
             => \E k \in 1..Len(skipped_reasons) :
                   /\ skipped_reasons[k].kind # "material_fallback"
                   /\ RowOf(source_entries[i]) \in Range(skipped_reasons[k].rows)

\* an anchor of the selected list on a row that is no target row
IsExtraAnchor(i) ==
    HasRow(source_entries[i]) /\ RowOf(source_entries[i]) \notin TargetRowSet

\* no pair and no written file holds the anchor, and its row is listed in
\* non_target_anchor_rows
ExtraAnchorKeptOut(i) ==
    /\ source_entries[i] \notin {mapped_rows[k].entry : k \in 1..Len(mapped_rows)}
    /\ source_entries[i].source \notin WrittenSources
    /\ RowOf(source_entries[i]) \in Range(non_target_anchor_rows)

Thm_C6_StrategyPriority ==
    AfterSelect =>
       /\ dispimg_entries # <<>> =>
             /\ source_entries = dispimg_entries
             /\ WrittenSources \subseteq {dispimg_entries[i].source : i \in 1..Len(dispimg_entries)}
       /\ (source_entries # <<>> /\ source_entries[1].source[1] # "dispimg")
             => dispimg_entries = <<>>
       /\ (\E i \in 1..Len(written) : written[i].source[1] = "media")
             => \A k \in 1..Len(PriorityLists) : PriorityLists[k] = <<>>

\* formula-key anchors, drawing anchors and media parts all exist, and a
\* formula-key anchor was written
Wit_C6_AllSourcesPresent ==
    /\ pc = "done"
    /\ dispimg_entries # <<>>
    /\ \E k \in 2..Len(PriorityLists) : PriorityLists[k] # <<>>
    /\ media_images # <<>>
    /\ written # <<>>

\* C7: every image written comes from the one selected list; a target row
\* at which the selected list has no anchor stays in missing_rows and gets
\* no image, also when another list has an anchor at that row.
Thm_C7_NoBacktracking ==
    AfterBranch =>
       /\ \A i \in 1..Len(written) : \A j \in 1..Len(written) :
             written[i].source[1] = written[j].source[1]
       /\ source_entries # <<>> =>
             WrittenSources \subseteq {source_entries[i].source : i \in 1..Len(source_entries)}
       /\ \A r \in TargetRowSet :
             r \notin AnchorRows(source_entries) =>
                /\ r \in MissingRowSet
                /\ \A i \in 1..Len(written) : written[i].row # <<r>>

\* a target row is missing although a list of lower priority than the
\* selected one has an anchor at that row, while another row was matched
Wit_C7_LowerPriorityHadAnchor ==
    /\ pc = "done"
    /\ written # <<>>
    /\ \E r \in MissingRowSet :
          \E k \in 1..Len(PriorityLists) :
             /\ PriorityLists[k] # source_entries
             /\ r \in AnchorRows(PriorityLists[k])

\* C8: a list of higher priority whose anchors all lack a row does not keep
\* the first list that has a row-bearing anchor from being selected.
CE_C8_FirstRowBearingSelected ==
    AfterSelect =>
       \A k \in 1..Len(PriorityLists) :
          (/\ HasRowBearing(PriorityLists[k])
           /\ \A h \in 1..(k - 1) : ~HasRowBearing(PriorityLists[h]))
             => source_entries = PriorityLists[k]

\* the media parts are written for the target rows, one per row in
\* ascending row order
MediaMappedToRows ==
    /\ Len(written) = Len(target_rows)
    /\ Len(media_images) >= Len(target_rows)
    /\ \A i \in 1..Len(target_rows) :
          /\ written[i].row = <<target_rows[i]>>
          /\ written[i].source = media_images[i].source

NoRowBearingAnchor == \A k \in 1..Len(PriorityLists) : ~HasRowBearing(PriorityLists[k])

Thm_C10_TotalFailure ==
    (/\ AfterBranch
     /\ target_rows # <<>>
     /\ ~HasRowBearing(source_entries)
     /\ Len(media_images) # Len(target_rows)) =>
       /\ mapping_info.missing_rows = target_rows
       /\ mapped_rows = <<>>
       /\ written = <<>>
       /\ extracted_count = 0

\* a list was selected whose anchors all lack a row, and every target row
\* is reported missing
Wit_C10_RowlessSourceSelected ==
    /\ pc = "done"
    /\ Len(target_rows) >= 2
    /\ source_entries # <<>>
    /\ ~HasRowBearing(source_entries)
    /\ Len(media_images) # Len(target_rows)
    /\ mapping_info.missing_rows = target_rows
    /\ written = <<>>

\* C11 as stated: the request sends an image bundle exactly when at least
\* one target row was matched, for every combination of target rows and
\* extractor outputs.
CE_C11_BundleOnlyWhenMatched ==
    pc = "done" => (response.zip <=> mapped_rows # <<>>)

\* C11 amended: with target rows, a bundle is sent exactly when a target row
\* was matched, and a request without match ends in the 400 error; in every
\* request a bundle is sent exactly when an image was written.
Thm_C11_BundleWithTargets ==
    pc = "done" =>
       /\ response.zip <=> written # <<>>
       /\ response.zip <=> response.status = 200
       /\ ~response.zip <=> response.status = 400
       /\ target_rows # <<>> => (response.zip <=> mapped_rows # <<>>)

\* target rows and a selected list exist, no row is matched, and the request
\* ends in the error without bundle
Wit_C11_NoMatchNoBundle ==
    /\ pc = "done"
    /\ target_rows # <<>>
    /\ source_entries # <<>>
    /\ mapped_rows = <<>>
    /\ ~response.zip
    /\ response.status = 400

\* the list the chain selects: the first of the five lists, in priority order,
\* that is not empty
FirstNonEmpty ==
    IF \A k \in 1..Len(PriorityLists) : PriorityLists[k] = <<>> THEN 0
    ELSE CHOOSE k \in 1..Len(PriorityLists) :
            /\ PriorityLists[k] # <<>>
            /\ \A h \in 1..(k - 1) : PriorityLists[h] = <<>>

FirstNonEmptyList == IF FirstNonEmpty = 0 THEN <<>> ELSE PriorityLists[FirstNonEmpty]

\* the name of the strategy of each list, in priority order
StrategyNames ==
    <<"dispimg_cellimages", "sheet_related_anchor", "cellimages_anchor",
      "drawing_anchor", "openpyxl_anchor">>

\* the last entry of a list at a row
LastEntryAt(entries, r) ==
    entries[CHOOSE i \in RowIndexes(entries, r) : \A j \in RowIndexes(entries, r) : j <= i]

-----------------------------------------------------------------------------
\* _resolve_zip_path (backend.py:324-331).  A path is the sequence of its
\* tokens: a separator ("/" or "\\") or a segment (".", ".." or a name); two
\* segments are never adjacent, their separator stands between them.

\* longest raw target, in tokens
MaxTargetLen == 6

Separators == {"/", "\\"}

SegmentTokens == {".", "..", "xl", "media", "image1.png"}

\* the raw targets a relationship can carry (its Target attribute)
RECURSIVE TargetsOfLen(_)
TargetsOfLen(n) ==
    IF n = 0 THEN {<<>>}
    ELSE {Append(t, x) : t \in TargetsOfLen(n - 1), x \in Separators}
         \cup {Append(t, x) : t \in {u \in TargetsOfLen(n - 1) :
                                        u = <<>> \/ u[Len(u)] \in Separators},
                              x \in SegmentTokens}

RawTargets == UNION {TargetsOfLen(n) : n \in 0..MaxTargetLen}

\* the parts whose relationships are resolved: the workbook, a sheet below
\* xl/worksheets, and a sheet that lies at the package root
BasePaths ==
    { <<"xl", "/", "workbook.xml">>,
      <<"xl", "/", "worksheets", "/", "sheet1.xml">>,
      <<"sheet1.xml">> }

\* str.replace("\\", "/")
ReplaceBackslash(t) == [i \in 1..Len(t) |-> IF t[i] = "\\" THEN "/" ELSE t[i]]

\* str.startswith("/")
StartsWithSlash(t) == t # <<>> /\ t[1] = "/"

\* str.lstrip("/")
RECURSIVE LStripSlash(_)
LStripSlash(t) == IF StartsWithSlash(t) THEN LStripSlash(Tail(t)) ELSE t

\* str.rstrip("/")
RECURSIVE RStripSlash(_)
RStripSlash(t) ==
    IF t # <<>> /\ t[Len(t)] = "/" THEN RStripSlash(SubSeq(t, 1, Len(t) - 1)) ELSE t

\* str.rfind("/") + 1
LastSlash(t) ==
    LET at == {i \in 1..Len(t) : t[i] = "/"}
    IN  IF at = {} THEN 0 ELSE CHOOSE i \in at : \A j \in at : j <= i

\* posixpath.dirname
Dirname(path) ==
    LET head == SubSeq(path, 1, LastSlash(path))
    IN  IF head # <<>> /\ \E i \in 1..Len(head) : head[i] # "/"
        THEN RStripSlash(head)
        ELSE head

\* posixpath.join of two paths
PathJoin(a, b) ==
    IF StartsWithSlash(b) THEN b
    ELSE IF a = <<>> \/ a[Len(a)] = "/" THEN a \o b
    ELSE a \o <<"/">> \o b

\* the segments of path.split("/") that are not empty
Segments(path) == SelectSeq(path, LAMBDA x : x # "/")

\* the stack of posixpath.normpath over the components
RECURSIVE NormComps(_, _, _)
NormComps(comps, new_comps, initial_slashes) ==
    IF comps = <<>> THEN new_comps
    ELSE LET comp == Head(comps)
         IN  IF comp = "."
             THEN NormComps(Tail(comps), new_comps, initial_slashes)
             ELSE IF \/ comp # ".."
                     \/ (initial_slashes = 0 /\ new_comps = <<>>)
                     \/ (new_comps # <<>> /\ new_comps[Len(new_comps)] = "..")
             THEN NormComps(Tail(comps), Append(new_comps, comp), initial_slashes)
             ELSE IF new_comps # <<>>
             THEN NormComps(Tail(comps), SubSeq(new_comps, 1, Len(new_comps) - 1),
                            initial_slashes)
             ELSE NormComps(Tail(comps), new_comps, initial_slashes)

\* "/".join(comps)
RECURSIVE SlashJoin(_)
SlashJoin(comps) ==
    IF comps = <<>> THEN <<>>
    ELSE IF Len(comps) = 1 THEN comps
    ELSE <<Head(comps), "/">> \o SlashJoin(Tail(comps))

\* posixpath.normpath
Normpath(path) ==
    IF path = <<>> THEN <<".">>
    ELSE LET initial_slashes ==
                 IF ~StartsWithSlash(path) THEN 0
                 ELSE IF /\ Len(path) >= 2 /\ path[2] = "/"
                         /\ ~(Len(path) >= 3 /\ path[3] = "/")
                 THEN 2 ELSE 1
             joined == SlashJoin(NormComps(Segments(path), <<>>, initial_slashes))
             full == [i \in 1..initial_slashes |-> "/"] \o joined
         IN  IF full = <<>> THEN <<".">> ELSE full

\* _resolve_zip_path joining the target to the base part itself
ResolveZipPathFromBase(base, raw) ==
    IF raw = <<>> THEN <<>>
    ELSE LET clean_target == ReplaceBackslash(raw)
         IN  IF StartsWithSlash(clean_target)
             THEN <<LStripSlash(clean_target)>>
             ELSE <<Normpath(PathJoin(base, clean_target))>>

\* _resolve_zip_path: <<>> for None, <<path>> for a path
ResolveZipPath(base, raw) ==
    IF raw = <<>> THEN <<>>
    ELSE LET clean_target == ReplaceBackslash(raw)
         IN  IF StartsWithSlash(clean_target)
             THEN <<LStripSlash(clean_target)>>
             ELSE <<Normpath(PathJoin(Dirname(base), clean_target))>>

InitResolve ==
    /\ pc = "resolve_call"
    /\ base_path \in BasePaths
    /\ target \in RawTargets
    /\ resolved = <<>>
    /\ ReqInit
    /\ AuxIdleExcept("path")

CallResolveZipPath ==
    /\ pc = "resolve_call"
    /\ resolved' = ResolveZipPath(base_path, target)
    /\ pc' = "resolve_done"
    /\ UNCHANGED <<base_path, target>>
    /\ UNCHANGED reqFields
    /\ AuxUnchangedExcept("path")

SpecResolve == InitResolve /\ [][CallResolveZipPath]_vars

\* the segments of the directory of a part: all its segments but the last
DirSegments(base) ==
    LET segs == Segments(base) IN SubSeq(segs, 1, Len(segs) - 1)

\* "." dropped; ".." cancels the directory before it, and is kept when no
\* directory is left to cancel
RECURSIVE CollapseSegs(_, _)
CollapseSegs(kept, rest) ==
    IF rest = <<>> THEN kept
    ELSE IF Head(rest) = "." THEN CollapseSegs(kept, Tail(rest))
    ELSE IF Head(rest) = ".." /\ kept # <<>> /\ kept[Len(kept)] # ".."
    THEN CollapseSegs(SubSeq(kept, 1, Len(kept) - 1), Tail(rest))
    ELSE CollapseSegs(Append(kept, Head(rest)), Tail(rest))

RootRelative(raw) == raw # <<>> /\ raw[1] \in Separators

ExampleBase == <<"xl", "/", "worksheets", "/", "sheet1.xml">>

ExampleResolved == <<"xl", "/", "media", "/", "image1.png">>

\* C12 as stated: a target starting with "/" resolves to itself without the
\* leading slash; any other target resolves to the directory of the base part
\* joined with the target, backslashes turned into "/", with no "." or ".."
\* segment left.
CE_C12_ResolveAsStated ==
    pc = "resolve_done" =>
       IF StartsWithSlash(target)
       THEN resolved = <<Tail(target)>>
       ELSE /\ resolved = <<SlashJoin(CollapseSegs(<<>>,
                               DirSegments(base_path) \o Segments(ReplaceBackslash(target))))>>
            /\ \A i \in 1..Len(resolved[1]) : resolved[1][i] \notin {".", "..", "\\"}

\* C12 amended: an empty target resolves to nothing; a target whose first
\* character is "/" or "\" resolves, whatever the base part, to itself with
\* backslashes turned into "/" and all leading slashes removed; any other
\* target resolves to the segments of the directory of the base part followed
\* by the segments of the target, "." dropped, ".." cancelling the directory
\* before it and kept when there is none, the empty result written ".".  The
\* two examples of the specification resolve to xl/media/image1.png.
Thm_C12_Resolve ==
    pc = "resolve_done" =>
       LET clean == ReplaceBackslash(target)
           segs == CollapseSegs(<<>>, DirSegments(base_path) \o Segments(clean))
       IN  /\ target = <<>> => resolved = <<>>
           /\ RootRelative(target) =>
                 /\ Len(resolved) = 1
                 /\ ~StartsWithSlash(resolved[1])
                 /\ \E k \in 1..Len(clean) :
                       /\ \A i \in 1..k : clean[i] = "/"
                       /\ resolved[1] = SubSeq(clean, k + 1, Len(clean))
                 /\ \A b \in BasePaths : ResolveZipPath(b, target) = resolved
           /\ target # <<>> /\ ~RootRelative(target) =>
                 resolved = <<IF segs = <<>> THEN <<".">> ELSE SlashJoin(segs)>>
           /\ base_path = ExampleBase
                 /\ target \in {<<"..", "/", "media", "/", "image1.png">>,
                                <<"/", "xl", "/", "media", "/", "image1.png">>}
              => resolved = <<ExampleResolved>>

\* the relative example of the specification has been resolved
Wit_C12_RelativeExample ==
    /\ pc = "resolve_done"
    /\ base_path = ExampleBase
    /\ target = <<"..", "/", "media", "/", "image1.png">>
    /\ resolved = <<ExampleResolved>>

-----------------------------------------------------------------------------
\* The formula-key extractor: _extract_dispimg_row_map (backend.py:722-748),
\* _extract_cellimages_by_key (814-907), _extract_dispimg_entries (910-948).
\* The package holds the sheet part and one shared-images part.

\* cells of the sheet part plus image nodes of the shared-images part
MaxDispItems == 3

\* the shared-formula ids of a sheet part
MaxSi == 2

\* the keys as the shared-images part writes them
NormKeys == {"ID_1", "ID_2"}

\* what the <f> node of a cell carries: its text (a DISPIMG formula is written
\* as the key it quotes, "" is no text), its shared-formula id (0 is none) and
\* its type attribute t (None when it has none)
FormulaKinds ==
    { [text |-> "ID_1", si |-> 0, t |-> None], [text |-> "id_2", si |-> 0, t |-> None],
      [text |-> "ID_1", si |-> 1, t |-> <<"shared">>], [text |-> "", si |-> 1, t |-> <<"shared">>] }

\* the cells of the sheet part in document order: by row, then by column
RECURSIVE CellsFrom(_, _)
CellsFrom(positions, n) ==
    IF n = 0 \/ positions = <<>> THEN {<<>>}
    ELSE CellsFrom(Tail(positions), n)
         \cup { <<[row |-> Head(positions)[1], col |-> Head(positions)[2],
                   text |-> k.text, si |-> k.si, t |-> k.t]>> \o rest :
                k \in FormulaKinds, rest \in CellsFrom(Tail(positions), n - 1) }

\* the cell positions of rows from..MaxRow, row by row
RECURSIVE GridPositions(_)
GridPositions(from) ==
    IF from > MaxRow THEN <<>>
    ELSE <<<<from, FIXED_IMAGE_COL>>, <<from, FIXED_IMAGE_COL + 1>>>>
         \o GridPositions(from + 1)

\* an image node: the keys its attributes and texts spell, and the media part
\* its embed relationship resolves to (0: none that can be read)
ImageNodes == [keys : SUBSET NormKeys, media : 0..2]

RECURSIVE NodeLists(_)
NodeLists(n) ==
    IF n = 0 THEN {<<>>}
    ELSE NodeLists(n - 1)
         \cup {Append(l, x) : l \in {m \in NodeLists(n - 1) : Len(m) = n - 1},
                              x \in ImageNodes}

\* _normalize_mapping_key: strip and upper-case
NormalizeMappingKey(key) == IF key = "id_2" THEN "ID_2" ELSE key

\* _extract_dispimg_key: the key quoted by the formula, "" for None; the
\* formula A1 quotes no key
ExtractDispimgKey(formula) == IF formula = "A1" THEN "" ELSE formula

\* _extract_dispimg_row_map: row_map as a function of the row, "" where the
\* row has no key.  start_row is a parameter the function never reads.
RECURSIVE RowMapLoop(_, _, _, _)
RowMapLoop(cells, image_col, row_map, shared_formula_by_si) ==
    IF cells = <<>> THEN row_map
    ELSE LET cell == Head(cells)
             defines == cell.si # 0 /\ cell.text # ""
             shared == IF defines
                       THEN [shared_formula_by_si EXCEPT ![cell.si] = cell.text]
                       ELSE shared_formula_by_si
             formula == IF cell.si # 0 /\ cell.text = "" /\ cell.t \in {<<"shared">>, None}
                        THEN shared[cell.si]
                        ELSE cell.text
             key == ExtractDispimgKey(formula)
         IN  IF cell.col # image_col
             THEN RowMapLoop(Tail(cells), image_col, row_map, shared_formula_by_si)
             ELSE RowMapLoop(Tail(cells), image_col,
                             IF key # "" THEN [row_map EXCEPT ![cell.row] = key]
                             ELSE row_map,
                             shared)

\* _extract_dispimg_row_map reading no shared-formula id
DispimgRowMapInlineOnly(cells, image_col, start_row) ==
    RowMapLoop([i \in 1..Len(cells) |-> [cells[i] EXCEPT !.si = 0]], image_col,
               [r \in 1..MaxRow |-> ""], [si \in 1..MaxSi |-> ""])

DispimgRowMap(cells, image_col, start_row) ==
    RowMapLoop(cells, image_col, [r \in 1..MaxRow |-> ""], [si \in 1..MaxSi |-> ""])

\* the keys of a node that are expected: matched_keys
MatchedKeys(node, expected_norm_keys) == node.keys \cap expected_norm_keys

\* _extract_cellimages_by_key: images_by_key as a function of the key, 0 where
\* the key has no image
RECURSIVE CellimagesByKeyLoop(_, _, _)
CellimagesByKeyLoop(nodes, expected_norm_keys, images_by_key) ==
    IF nodes = <<>> THEN images_by_key
    ELSE LET node == Head(nodes)
             matched_keys == MatchedKeys(node, expected_norm_keys)
         IN  IF node.media = 0 \/ Cardinality(matched_keys) # 1
             THEN CellimagesByKeyLoop(Tail(nodes), expected_norm_keys, images_by_key)
             ELSE CellimagesByKeyLoop(Tail(nodes), expected_norm_keys,
                      [images_by_key EXCEPT ![CHOOSE k \in matched_keys : TRUE] = node.media])

CellimagesByKey(nodes, expected_norm_keys) ==
    CellimagesByKeyLoop(nodes, expected_norm_keys, [k \in NormKeys |-> 0])

\* the entries of _extract_dispimg_entries for the rows from..MaxRow
RECURSIVE DispimgRowEntries(_, _, _, _)
DispimgRowEntries(from, row_key_map, images_by_key, image_col) ==
    IF from > MaxRow THEN <<>>
    ELSE LET norm_key == NormalizeMappingKey(row_key_map[from])
             here == IF row_key_map[from] # "" /\ images_by_key[norm_key] # 0
                     THEN <<[row |-> from, col |-> image_col,
                             media |-> images_by_key[norm_key],
                             source |-> <<"dispimg", norm_key>>]>>
                     ELSE <<>>
         IN  here \o DispimgRowEntries(from + 1, row_key_map, images_by_key, image_col)

\* _extract_dispimg_entries
ExtractDispimgEntries(cells, nodes, image_col, start_row) ==
    LET row_key_map == DispimgRowMap(cells, image_col, start_row)
        expected_keys == {NormalizeMappingKey(row_key_map[r]) :
                             r \in {q \in 1..MaxRow : row_key_map[q] # ""}}
        images_by_key == CellimagesByKey(nodes, expected_keys)
    IN  IF expected_keys = {} THEN <<>>
        ELSE IF \A k \in NormKeys : images_by_key[k] = 0 THEN <<>>
        ELSE DispimgRowEntries(1, row_key_map, images_by_key, image_col)

InitDispimg ==
    /\ pc = "dispimg_call"
    /\ \E n \in 0..MaxDispItems :
          /\ sheet_cells \in CellsFrom(GridPositions(1), n)
          /\ cellimage_nodes \in NodeLists(MaxDispItems - n)
    /\ Len(sheet_cells) + Len(cellimage_nodes) <= MaxDispItems
    /\ disp_start_row = 0
    /\ disp_result = <<>>
    /\ ReqInit
    /\ AuxIdleExcept("disp")

\* extract_images calls the extractor with the start row of the layout
CallExtractDispimgEntries ==
    /\ pc = "dispimg_call"
    /\ \E start_row \in 1..MaxRow :
          /\ disp_start_row' = start_row
          /\ disp_result' = ExtractDispimgEntries(sheet_cells, cellimage_nodes,
                                                  FIXED_IMAGE_COL, start_row)
    /\ pc' = "dispimg_done"
    /\ UNCHANGED <<sheet_cells, cellimage_nodes>>
    /\ UNCHANGED reqFields
    /\ AuxUnchangedExcept("disp")

SpecDispimg == InitDispimg /\ [][CallExtractDispimgEntries]_vars

\* the nodes that can be read and match the key and no other expected key
NodesOfKey(key) ==
    LET row_key_map == DispimgRowMap(sheet_cells, FIXED_IMAGE_COL, disp_start_row)
        expected_keys == {NormalizeMappingKey(row_key_map[r]) :
                             r \in {q \in 1..MaxRow : row_key_map[q] # ""}}
    IN  {i \in 1..Len(cellimage_nodes) :
            /\ cellimage_nodes[i].media # 0
            /\ MatchedKeys(cellimage_nodes[i], expected_keys) = {key}}

\* nodes with different media match the key
AmbiguousKey(key) ==
    \E i, j \in NodesOfKey(key) : cellimage_nodes[i].media # cellimage_nodes[j].media

\* C13: a formula key matched by more than one image node, or by none, is
\* unresolved: the formula-key extractor returns no anchor whose key is
\* matched by several nodes holding different images, or by no node.
CE_C13_AmbiguousKeyUnresolved ==
    pc = "dispimg_done" =>
       \A i \in 1..Len(disp_result) :
          /\ NodesOfKey(disp_result[i].source[2]) # {}
          /\ ~AmbiguousKey(disp_result[i].source[2])

\* C14: every anchor of the formula-key extractor has a row at or after the
\* start row and lies in the image column.
CE_C14_FromStartRow ==
    pc = "dispimg_done" =>
       \A i \in 1..Len(disp_result) :
          /\ disp_result[i].row >= disp_start_row
          /\ disp_result[i].col = FIXED_IMAGE_COL

-----------------------------------------------------------------------------
\* The order of the list an anchor extractor returns (backend.py:455, 550,
\* 571, 1008): entries.sort(key=lambda item: (item.get("row") or 10**9,
\* item.get("col") or 10**9, item["source"])).

\* _anchor_row_col_from_node: int(text) + 1 for the <row> and the <col> of the
\* from marker, None when absent or not a number; the text "-1" gives 0
AnchorRowValues == {None} \cup {<<r>> : r \in 0..MaxRow}

AnchorColValues == {None} \cup {<<c>> : c \in 0..(FIXED_IMAGE_COL + 1)}

AnchorNodes == [row : AnchorRowValues, col : AnchorColValues]

AnchorNodeLists ==
    UNION {[1..k -> AnchorNodes] : k \in 0..MaxAnchors}

\* item.get("col") or 10**9
ColKey(e) == IF e.col # None /\ e.col[1] # 0 THEN e.col[1] ELSE SortInfinity

\* the order of the sort keys (row, col, source); the sources of one list
\* share their tag and differ in their number
FullKeyLess(a, b) ==
    \/ RowKey(a) < RowKey(b)
    \/ RowKey(a) = RowKey(b) /\ ColKey(a) < ColKey(b)
    \/ RowKey(a) = RowKey(b) /\ ColKey(a) = ColKey(b) /\ a.source[2] < b.source[2]

RECURSIVE InsertByFullKey(_, _)
InsertByFullKey(e, s) ==
    IF s = <<>> THEN <<e>>
    ELSE IF FullKeyLess(e, Head(s)) THEN <<e>> \o s
    ELSE <<Head(s)>> \o InsertByFullKey(e, Tail(s))

\* entries.sort(key=...) over entries with row, col and source
RECURSIVE SortByFullKey(_)
SortByFullKey(s) ==
    IF s = <<>> THEN <<>> ELSE InsertByFullKey(Head(s), SortByFullKey(Tail(s)))

\* the entries appended for the anchors, numbered in document order; an
\* extractor that requires a row passes over the anchors without one
RECURSIVE AppendedEntries(_, _, _, _)
AppendedEntries(nodes, tag, idx, needs_row) ==
    IF nodes = <<>> THEN <<>>
    ELSE IF needs_row /\ Head(nodes).row = None
    THEN AppendedEntries(Tail(nodes), tag, idx, needs_row)
    ELSE <<[row |-> Head(nodes).row, col |-> Head(nodes).col,
            source |-> <<tag, idx + 1>>]>>
         \o AppendedEntries(Tail(nodes), tag, idx + 1, needs_row)

InitSort ==
    /\ pc = "sort_call"
    /\ anchor_nodes \in AnchorNodeLists
    /\ sort_tag = ""
    /\ sort_result = <<>>
    /\ ReqInit
    /\ AuxIdleExcept("sort")

ReturnSorted(tag, needs_row) ==
    /\ pc = "sort_call"
    /\ sort_tag' = tag
    /\ sort_result' = SortByFullKey(AppendedEntries(anchor_nodes, tag, 0, needs_row))
    /\ pc' = "sort_done"
    /\ UNCHANGED anchor_nodes
    /\ UNCHANGED reqFields
    /\ AuxUnchangedExcept("sort")

\* _extract_openpyxl_images
CallExtractOpenpyxlImages == ReturnSorted("openpyxl", FALSE)

\* _extract_drawing_images_for_sheet
CallExtractDrawingImages == ReturnSorted("drawing", FALSE)

\* _extract_sheet_related_anchor_images
CallExtractSheetRelatedAnchorImages == ReturnSorted("sheet_related_anchor", TRUE)

\* _extract_cellimages_anchor_entries
CallExtractCellimagesAnchorEntries == ReturnSorted("cellimages_anchor", TRUE)

NextSort ==
    \/ CallExtractOpenpyxlImages
    \/ CallExtractDrawingImages
    \/ CallExtractSheetRelatedAnchorImages
    \/ CallExtractCellimagesAnchorEntries

SpecSort == InitSort /\ [][NextSort]_vars

\* (row, column, sourceTag) with a missing row or column after every present
\* value
StatedKeyLess(a, b) ==
    LET rowBefore == a.row # None /\ (b.row = None \/ a.row[1] < b.row[1])
        colBefore == a.col # None /\ (b.col = None \/ a.col[1] < b.col[1])
    IN  \/ rowBefore
        \/ a.row = b.row /\ colBefore
        \/ a.row = b.row /\ a.col = b.col /\ a.source[2] < b.source[2]

\* C15: the list an extractor returns is sorted by (row, column, sourceTag),
\* a missing row or column ordered after every present value.
CE_C15_SortedByRowColSource ==
    pc = "sort_done" =>
       \A i, j \in 1..Len(sort_result) :
          i < j => StatedKeyLess(sort_result[i], sort_result[j])

-----------------------------------------------------------------------------
\* The extractors on a container with absent parts.  Every archive.read of a
\* part is recorded: a read of a part the container does not hold raises
\* KeyError.  The parts that are present hold one sheet with one drawing, one
\* DISPIMG formula, one shared-images part and one media part.

\* the names of the parts of the container
Part ==
    [workbook |-> "xl/workbook.xml",
     workbook_rels |-> "xl/_rels/workbook.xml.rels",
     sheet |-> "xl/worksheets/sheet1.xml",
     sheet_rels |-> "xl/worksheets/_rels/sheet1.xml.rels",
     drawing |-> "xl/drawings/drawing1.xml",
     drawing_rels |-> "xl/drawings/_rels/drawing1.xml.rels",
     cellimages |-> "xl/cellimages.xml",
     cellimages_rels |-> "xl/_rels/cellimages.xml.rels",
     media |-> "xl/media/image1.png"]

PartNames == {Part[k] : k \in DOMAIN Part}

\* the resolved target of the relationship a relationship part holds
RelTarget(rels_path) ==
    CASE rels_path = Part.workbook_rels -> Part.sheet
      [] rels_path = Part.sheet_rels -> Part.drawing
      [] rels_path = Part.drawing_rels -> Part.media
      [] rels_path = Part.cellimages_rels -> Part.media
      [] OTHER -> ""

\* _read_relationships without the test of archive.namelist()
ReadRelationshipsUnguarded(present, rels_path) ==
    [reads |-> {rels_path},
     target |-> IF rels_path \in present THEN RelTarget(rels_path) ELSE ""]

\* _read_relationships: the parts read and the target found ("" for none)
ReadRelationships(present, rels_path) ==
    IF rels_path \notin present
    THEN [reads |-> {}, target |-> ""]
    ELSE [reads |-> {rels_path}, target |-> RelTarget(rels_path)]

\* _sheet_path_for_name
SheetPathForName(present) ==
    IF Part.workbook \notin present
    THEN [reads |-> {}, path |-> ""]
    ELSE LET workbook_rels == ReadRelationships(present, Part.workbook_rels)
         IN  [reads |-> {Part.workbook} \cup workbook_rels.reads,
              path |-> workbook_rels.target]

\* the entry an extractor appends for the one image of the container
OneEntry(tag) == <<[row |-> <<2>>, source |-> <<tag, 1>>]>>

\* _extract_drawing_images_for_sheet
DrawingImagesForSheet(present) ==
    LET sheet == SheetPathForName(present)
        sheet_rels == ReadRelationships(present, Part.sheet_rels)
        drawing_path == sheet_rels.target
        drawing_rels == ReadRelationships(present, Part.drawing_rels)
        media_path == drawing_rels.target
    IN  IF sheet.path = "" \/ sheet.path \notin present
        THEN [reads |-> sheet.reads, entries |-> <<>>]
        ELSE IF drawing_path = "" \/ drawing_path \notin present
        THEN [reads |-> sheet.reads \cup {sheet.path} \cup sheet_rels.reads,
              entries |-> <<>>]
        ELSE IF media_path = "" \/ media_path \notin present
        THEN [reads |-> sheet.reads \cup {sheet.path} \cup sheet_rels.reads
                        \cup {drawing_path} \cup drawing_rels.reads,
              entries |-> <<>>]
        ELSE [reads |-> sheet.reads \cup {sheet.path} \cup sheet_rels.reads
                        \cup {drawing_path} \cup drawing_rels.reads \cup {media_path},
              entries |-> OneEntry("drawing")]

\* _extract_sheet_related_anchor_images
SheetRelatedAnchorImages(present) ==
    LET sheet == SheetPathForName(present)
        sheet_rels == ReadRelationships(present, Part.sheet_rels)
        part_path == sheet_rels.target
        part_rels == ReadRelationships(present, Part.drawing_rels)
        media_path == part_rels.target
    IN  IF sheet.path = "" \/ sheet.path \notin present
        THEN [reads |-> sheet.reads, entries |-> <<>>]
        ELSE IF sheet_rels.target = ""
        THEN [reads |-> sheet.reads \cup sheet_rels.reads, entries |-> <<>>]
        ELSE IF part_path \notin present
        THEN [reads |-> sheet.reads \cup sheet_rels.reads, entries |-> <<>>]
        ELSE IF part_rels.target = ""
        THEN [reads |-> sheet.reads \cup sheet_rels.reads \cup {part_path}
                        \cup part_rels.reads,
              entries |-> <<>>]
        ELSE IF media_path \notin present
        THEN [reads |-> sheet.reads \cup sheet_rels.reads \cup {part_path}
                        \cup part_rels.reads,
              entries |-> <<>>]
        ELSE [reads |-> sheet.reads \cup sheet_rels.reads \cup {part_path}
                        \cup part_rels.reads \cup {media_path},
              entries |-> OneEntry("sheet_related_anchor")]

\* _find_cellimages_part_paths: the workbook relationships name no
\* shared-images part, the candidate names are tried against namelist()
FindCellimagesPartPaths(present) ==
    LET workbook_rels == ReadRelationships(present, Part.workbook_rels)
    IN  [reads |-> workbook_rels.reads,
         paths |-> IF Part.cellimages \in present THEN <<Part.cellimages>> ELSE <<>>]

\* _extract_dispimg_entries with _extract_dispimg_row_map and
\* _extract_cellimages_by_key
DispimgEntriesOfParts(present) ==
    LET sheet == SheetPathForName(present)
        found == FindCellimagesPartPaths(present)
        rels_map == ReadRelationships(present, Part.cellimages_rels)
        media_path == rels_map.target
    IN  IF sheet.path = "" \/ sheet.path \notin present
        THEN [reads |-> sheet.reads, entries |-> <<>>]
        ELSE IF found.paths = <<>>
        THEN [reads |-> sheet.reads \cup {sheet.path} \cup found.reads,
              entries |-> <<>>]
        ELSE IF media_path = "" \/ media_path \notin present
        THEN [reads |-> sheet.reads \cup {sheet.path} \cup found.reads
                        \cup rels_map.reads \cup {found.paths[1]},
              entries |-> <<>>]
        ELSE [reads |-> sheet.reads \cup {sheet.path} \cup found.reads
                        \cup rels_map.reads \cup {found.paths[1], media_path},
              entries |-> OneEntry("dispimg")]

\* _extract_cellimages_anchor_entries
CellimagesAnchorEntriesOfParts(present) ==
    LET found == FindCellimagesPartPaths(present)
        rels_map == ReadRelationships(present, Part.cellimages_rels)
        media_path == rels_map.target
    IN  IF found.paths = <<>>
        THEN [reads |-> found.reads, entries |-> <<>>]
        ELSE IF rels_map.target = ""
        THEN [reads |-> found.reads \cup rels_map.reads, entries |-> <<>>]
        ELSE IF media_path \notin present
        THEN [reads |-> found.reads \cup rels_map.reads \cup {found.paths[1]},
              entries |-> <<>>]
        ELSE [reads |-> found.reads \cup rels_map.reads
                        \cup {found.paths[1], media_path},
              entries |-> OneEntry("cellimages_anchor")]

\* _extract_media_images: the names of namelist() below xl/media/ are read
MediaImagesOfParts(present) ==
    IF Part.media \in present
    THEN [reads |-> {Part.media}, entries |-> <<[source |-> <<"media", 1>>]>>]
    ELSE [reads |-> {}, entries |-> <<>>]

\* how a call ends: KeyError when a part that is not there was read
OutcomeOf(present, run) ==
    IF run.reads \subseteq present
    THEN [raised |-> FALSE, entries |-> run.entries]
    ELSE [raised |-> TRUE, entries |-> <<>>]

InitParts ==
    /\ pc = "parts_call"
    /\ parts_present \in SUBSET PartNames
    /\ parts_extractor = ""
    /\ parts_outcome = [raised |-> FALSE, entries |-> <<>>]
    /\ ReqInit
    /\ AuxIdleExcept("parts")

Returned(name, run) ==
    /\ pc = "parts_call"
    /\ parts_extractor' = name
    /\ parts_outcome' = OutcomeOf(parts_present, run)
    /\ pc' = "parts_done"
    /\ UNCHANGED parts_present
    /\ UNCHANGED reqFields
    /\ AuxUnchangedExcept("parts")

CallDrawingOnParts == Returned("drawing", DrawingImagesForSheet(parts_present))

CallSheetRelatedOnParts ==
    Returned("sheet_related_anchor", SheetRelatedAnchorImages(parts_present))

CallDispimgOnParts == Returned("dispimg", DispimgEntriesOfParts(parts_present))

CallCellimagesAnchorOnParts ==
    Returned("cellimages_anchor", CellimagesAnchorEntriesOfParts(parts_present))

CallMediaOnParts == Returned("media", MediaImagesOfParts(parts_present))

NextParts ==
    \/ CallDrawingOnParts
    \/ CallSheetRelatedOnParts
    \/ CallDispimgOnParts
    \/ CallCellimagesAnchorOnParts
    \/ CallMediaOnParts

SpecParts == InitParts /\ [][NextParts]_vars

\* the parts an extractor needs to find the image of the container
NeededParts(name) ==
    CASE name = "drawing" ->
            {Part.workbook, Part.workbook_rels, Part.sheet, Part.sheet_rels,
             Part.drawing, Part.drawing_rels, Part.media}
      [] name = "sheet_related_anchor" ->
            {Part.workbook, Part.workbook_rels, Part.sheet, Part.sheet_rels,
             Part.drawing, Part.drawing_rels, Part.media}
      [] name = "dispimg" ->
            {Part.workbook, Part.workbook_rels, Part.sheet, Part.cellimages,
             Part.cellimages_rels, Part.media}
      [] name = "cellimages_anchor" ->
            {Part.cellimages, Part.cellimages_rels, Part.media}
      [] OTHER -> {Part.media}

-----------------------------------------------------------------------------
\* Layout detection and target rows: _detect_layout (backend.py:246-283),
\* _row_code (286-299), _collect_target_rows (1032-1039).

\* rows of the worksheet the layout is detected on: ws.max_row
LayoutMaxRow == 6
\* cells of the worksheet that hold a value
MaxLayoutCells == 2

\* FIXED_VENDOR_COL = 4  (column D)
FIXED_VENDOR_COL == 4
\* FIXED_MATERIAL_COL = 6  (column F)
FIXED_MATERIAL_COL == 6
\* max_row = min(ws.max_row or 1, 120)
HeaderScanLimit == 120
\* vendor_header_row <= 5
VendorHeaderLimit == 5

\* the values of a row in columns A, D and F; "" is a cell without value
RowValues ==
    [a : {"", "Picture", "x"},
     d : {"", " ", "Vendor Material", "V100"},
     f : {"", "Original Material", "M200"}]

FilledCells(row) ==
    (IF row.a # "" THEN 1 ELSE 0) + (IF row.d # "" THEN 1 ELSE 0)
    + (IF row.f # "" THEN 1 ELSE 0)

\* the worksheets of rows from..LayoutMaxRow with at most n cells holding a
\* value
RECURSIVE SheetsFrom(_, _)
SheetsFrom(from, n) ==
    IF from > LayoutMaxRow THEN {<<>>}
    ELSE UNION { {<<row>> \o rest : rest \in SheetsFrom(from + 1, n - FilledCells(row))} :
                 row \in {r \in RowValues : FilledCells(r) <= n} }

\* _normalize_label: strip, lower-case, single spaces
NormalizeLabel(value) ==
    CASE value = "Picture" -> "picture"
      [] value = "Vendor Material" -> "vendor material"
      [] value = "Original Material" -> "original material"
      [] value = "V100" -> "v100"
      [] value = "M200" -> "m200"
      [] value = "x" -> "x"
      [] OTHER -> ""

\* _is_image_header_label: "image", "picture" or "photo" in the label
IsImageHeaderLabel(label) == label = "picture"

\* _is_vendor_header_label: "vendor" and "material" in the label
IsVendorHeaderLabel(label) == label = "vendor material"

\* _is_material_header_label: no "vendor", and "original material" in the
\* label or "material" at its start
IsMaterialHeaderLabel(label) == label = "original material"

\* str(value).strip() if value not in (None, "") else ""
StrippedText(value) == IF value = " " THEN "" ELSE value

\* the first of the rows, 0 (None) when there is none
FirstRow(rows) ==
    IF rows = {} THEN 0 ELSE CHOOSE r \in rows : \A q \in rows : r <= q

\* the layout record of _detect_layout with the start row given
LayoutWith(cells, max_column, start_row) ==
    LET max_row == Min(IF Len(cells) = 0 THEN 1 ELSE Len(cells), HeaderScanLimit)
    IN  [image_col |-> FIXED_IMAGE_COL,
         vendor_col |-> FIXED_VENDOR_COL,
         material_col |-> IF max_column >= FIXED_MATERIAL_COL
                          THEN FIXED_MATERIAL_COL ELSE 0,
         start_row |-> start_row,
         image_header_row |->
             FirstRow({r \in 1..max_row : IsImageHeaderLabel(NormalizeLabel(cells[r].a))}),
         vendor_header_row |->
             FirstRow({r \in 1..max_row : IsVendorHeaderLabel(NormalizeLabel(cells[r].d))}),
         material_header_row |->
             FirstRow({r \in 1..max_row : IsMaterialHeaderLabel(NormalizeLabel(cells[r].f))})]

\* the largest of three rows
Max3(a, b, c) ==
    IF a >= b /\ a >= c THEN a ELSE IF b >= c THEN b ELSE c

\* _detect_layout starting one past the last header row of the three roles,
\* at row 2 without header
DetectLayoutLastHeader(cells, max_column) ==
    LET found == LayoutWith(cells, max_column, 0)
        last == Max3(found.image_header_row, found.vendor_header_row,
                     found.material_header_row)
    IN  LayoutWith(cells, max_column, IF last = 0 THEN 2 ELSE last + 1)

\* _detect_layout starting at row 0 without vendor header
DetectLayoutFromZero(cells, max_column) ==
    LET found == LayoutWith(cells, max_column, 0)
    IN  LayoutWith(cells, max_column,
                   IF found.vendor_header_row # 0
                      /\ found.vendor_header_row <= VendorHeaderLimit
                   THEN found.vendor_header_row + 1
                   ELSE 0)

\* _detect_layout
DetectLayoutOf(cells, max_column) ==
    LET found == LayoutWith(cells, max_column, 0)
    IN  LayoutWith(cells, max_column,
                   IF found.vendor_header_row # 0
                      /\ found.vendor_header_row <= VendorHeaderLimit
                   THEN found.vendor_header_row + 1
                   ELSE 1)

\* _row_code taking the vendor cell only
RowCodeVendorOnly(cells, row_idx, vendor_col, material_col) ==
    LET vendor_text == StrippedText(IF vendor_col # 0 THEN cells[row_idx].d ELSE "")
    IN  IF vendor_text # "" /\ ~IsVendorHeaderLabel(NormalizeLabel(vendor_text))
        THEN "vendor"
        ELSE ""

\* _row_code: the source of the code of the row, "" when the row has none
RowCode(cells, row_idx, vendor_col, material_col) ==
    LET vendor_text == StrippedText(IF vendor_col # 0 THEN cells[row_idx].d ELSE "")
        material_text == StrippedText(IF material_col # 0 THEN cells[row_idx].f ELSE "")
    IN  IF vendor_text # "" /\ ~IsVendorHeaderLabel(NormalizeLabel(vendor_text))
        THEN "vendor"
        ELSE IF material_text # ""
                /\ ~IsMaterialHeaderLabel(NormalizeLabel(material_text))
        THEN "material"
        ELSE ""

\* _collect_target_rows: the rows of range(from, max_row + 1) that have a code
RECURSIVE CollectRowsFrom(_, _, _, _, _)
CollectRowsFrom(cells, from, max_row, vendor_col, material_col) ==
    IF from > max_row THEN <<>>
    ELSE (IF RowCode(cells, from, vendor_col, material_col) # ""
          THEN <<from>> ELSE <<>>)
         \o CollectRowsFrom(cells, from + 1, max_row, vendor_col, material_col)

CollectTargetRowsOf(cells, start_row, vendor_col, material_col) ==
    CollectRowsFrom(cells, start_row,
                    IF Len(cells) = 0 THEN start_row ELSE Len(cells),
                    vendor_col, material_col)

\* a worksheet whose column F holds a value has at least six columns
InitLayout ==
    /\ pc = "layout_detect"
    /\ ws_cells \in SheetsFrom(1, MaxLayoutCells)
    /\ ws_max_column \in {FIXED_VENDOR_COL, FIXED_MATERIAL_COL}
    /\ (\E r \in 1..Len(ws_cells) : ws_cells[r].f # "")
          => ws_max_column = FIXED_MATERIAL_COL
    /\ layout = [image_col |-> 0, vendor_col |-> 0, material_col |-> 0,
                 start_row |-> 0, image_header_row |-> 0,
                 vendor_header_row |-> 0, material_header_row |-> 0]
    /\ collected_rows = <<>>
    /\ layout_summary = <<>>
    /\ ReqInit
    /\ AuxIdleExcept("layout")

\* layout = _detect_layout(ws)
DetectLayout ==
    /\ pc = "layout_detect"
    /\ layout' = DetectLayoutOf(ws_cells, ws_max_column)
    /\ pc' = "layout_collect"
    /\ UNCHANGED <<ws_cells, ws_max_column, collected_rows, layout_summary>>
    /\ UNCHANGED reqFields
    /\ AuxUnchangedExcept("layout")

\* target_rows = _collect_target_rows(ws, start_row, vendor_col, material_col)
CollectLayoutTargetRows ==
    /\ pc = "layout_collect"
    /\ collected_rows' = CollectTargetRowsOf(ws_cells, layout.start_row,
                                             layout.vendor_col, layout.material_col)
    /\ pc' = "layout_summary"
    /\ UNCHANGED <<ws_cells, ws_max_column, layout, layout_summary>>
    /\ UNCHANGED reqFields
    /\ AuxUnchangedExcept("layout")

\* the lines "Detected image column", "Detected vendor column", "Detected
\* material column" and "Data start row" of the summary
WriteLayoutSummary ==
    /\ pc = "layout_summary"
    /\ layout_summary' = <<layout.image_col, layout.vendor_col,
                           layout.material_col, layout.start_row>>
    /\ pc' = "layout_done"
    /\ UNCHANGED <<ws_cells, ws_max_column, layout, collected_rows>>
    /\ UNCHANGED reqFields
    /\ AuxUnchangedExcept("layout")

NextLayout ==
    \/ DetectLayout
    \/ CollectLayoutTargetRows
    \/ WriteLayoutSummary

SpecLayout == InitLayout /\ [][NextLayout]_vars

LayoutDetected == pc \in {"layout_collect", "layout_summary", "layout_done"}

RowsCollected == pc \in {"layout_summary", "layout_done"}

\* the rows whose cell in column D is a vendor-header label
VendorHeaderRows ==
    {r \in 1..Len(ws_cells) : IsVendorHeaderLabel(NormalizeLabel(ws_cells[r].d))}

\* C17 as stated: startRow is one plus the largest header row detected among
\* the image, vendor and material roles, and 2 when no header row was
\* detected.
CE_C17_StartRowAfterLastHeader ==
    LayoutDetected =>
       LET last == Max3(layout.image_header_row, layout.vendor_header_row,
                        layout.material_header_row)
       IN  layout.start_row = IF last = 0 THEN 2 ELSE last + 1

\* C17 amended: startRow is one plus the first row whose column-D cell is a
\* vendor-header label when that row is among the first five rows, and 1
\* otherwise; the image and the material header rows have no part in it.
Thm_C17_StartRowAfterVendorHeader ==
    LayoutDetected =>
       LET first == IF VendorHeaderRows = {} THEN 0
                    ELSE CHOOSE r \in VendorHeaderRows :
                            \A q \in VendorHeaderRows : q >= r
       IN  /\ layout.vendor_header_row = first
           /\ layout.start_row =
                 IF first # 0 /\ first <= VendorHeaderLimit THEN first + 1 ELSE 1

\* a layout with a vendor header, and an image header on a later row that
\* does not move the start row
Wit_C17_LaterImageHeader ==
    /\ LayoutDetected
    /\ layout.vendor_header_row # 0
    /\ layout.image_header_row > layout.vendor_header_row
    /\ layout.start_row = layout.vendor_header_row + 1

\* C18: the layout detected has startRow >= 1, imageColumn >= 1 and
\* vendorColumn >= 1, and no later step of the request changes it.
Thm_C18_LayoutFixed ==
    [][ /\ pc = "layout_detect" =>
              /\ layout'.start_row >= 1
              /\ layout'.image_col >= 1
              /\ layout'.vendor_col >= 1
        /\ LayoutDetected =>
              /\ layout' = layout
              /\ layout.start_row >= 1
              /\ layout.image_col >= 1
              /\ layout.vendor_col >= 1 ]_vars

\* the request has collected target rows and written the summary from a
\* layout that starts below a vendor header
Wit_C18_LayoutUsed ==
    /\ pc = "layout_done"
    /\ layout.start_row > 1
    /\ collected_rows # <<>>
    /\ layout_summary = <<layout.image_col, layout.vendor_col,
                          layout.material_col, layout.start_row>>

\* a cell holds text when it is not empty after stripping
HasVendorValue(r) ==
    /\ StrippedText(ws_cells[r].d) # ""
    /\ ~IsVendorHeaderLabel(NormalizeLabel(ws_cells[r].d))

HasMaterialValue(r) ==
    /\ StrippedText(ws_cells[r].f) # ""
    /\ ~IsMaterialHeaderLabel(NormalizeLabel(ws_cells[r].f))

\* C19: a row is a target row exactly when it lies between startRow and the
\* last row of the sheet and its vendor cell holds text that is not a
\* vendor-header label, or its material cell holds text that is not a
\* material-header label; the list is strictly ascending.
Thm_C19_TargetRows ==
    RowsCollected =>
       /\ \A r \in 1..(Len(ws_cells) + 1) :
             (\E i \in 1..Len(collected_rows) : collected_rows[i] = r)
             <=> /\ r >= layout.start_row
                 /\ r <= Len(ws_cells)
                 /\ HasVendorValue(r) \/ HasMaterialValue(r)
       /\ \A i \in 1..Len(collected_rows) :
             collected_rows[i] \in layout.start_row..Len(ws_cells)
       /\ \A i, j \in 1..Len(collected_rows) :
             i < j => collected_rows[i] < collected_rows[j]

\* below a vendor header, one row is a target by its material cell alone and
\* a header row is none
Wit_C19_MaterialOnlyRow ==
    /\ RowsCollected
    /\ layout.start_row > 1
    /\ \E i \in 1..Len(collected_rows) :
          /\ ~HasVendorValue(collected_rows[i])
          /\ HasMaterialValue(collected_rows[i])

-----------------------------------------------------------------------------
\* Row of a vertical offset: _row_height_points (backend.py:587-604) and
\* _row_from_y_emu (607-624).  Heights are whole points; a value that may be
\* None is <<>> when it is None and <<v>> when it is v.

\* rows of the worksheet: ws.max_row
MaxHeightRows == 2
\* offsets tried, in steps of five points
MaxYSteps == 8

\* EMU_PER_POINT = 12700
EMU_PER_POINT == 12700
\* DEFAULT_ROW_HEIGHT_POINTS = 15.0
DEFAULT_ROW_HEIGHT_POINTS == 15
\* max_row = (ws.max_row or 1) + 500
RowScanMargin == 500

\* row_dimensions[row].height: None, 0, or a height in points
ExplicitHeights == {<<>>, <<0>>, <<10>>, <<20>>}

\* sheet_format.defaultRowHeight
DefaultHeights == {<<>>, <<0>>, <<20>>}

\* default_height = sheet_format.defaultRowHeight or DEFAULT_ROW_HEIGHT_POINTS
DefaultHeightPoints(given, default) ==
    IF ~given THEN DEFAULT_ROW_HEIGHT_POINTS
    ELSE IF default = <<>> \/ default[1] = 0 THEN DEFAULT_ROW_HEIGHT_POINTS
    ELSE default[1]

\* _row_height_points giving a row of explicit height 0 no height
RowHeightPointsZeroKept(given, heights, default, row_idx) ==
    IF ~given THEN DEFAULT_ROW_HEIGHT_POINTS
    ELSE LET height == IF row_idx <= Len(heights) THEN heights[row_idx] ELSE <<>>
         IN  IF height = <<>>
             THEN DefaultHeightPoints(given, default)
             ELSE height[1]

\* _row_height_points
RowHeightPoints(given, heights, default, row_idx) ==
    IF ~given THEN DEFAULT_ROW_HEIGHT_POINTS
    ELSE LET height == IF row_idx <= Len(heights) THEN heights[row_idx] ELSE <<>>
         IN  IF height = <<>> \/ height[1] = 0
             THEN DefaultHeightPoints(given, default)
             ELSE height[1]

\* the iterations lo..hi of the loop of _row_from_y_emu, cumulative being the
\* height of the rows before lo: the row returned, if any, and the height
\* reached.  The iterations are run as the first half, then the second.
RECURSIVE RowScan(_, _, _, _, _, _)
RowScan(heights, default, y_value, lo, hi, cumulative) ==
    IF lo > hi THEN [row |-> <<>>, cumulative |-> cumulative]
    ELSE IF lo = hi
    THEN LET next == cumulative
                     + RowHeightPoints(TRUE, heights, default, lo) * EMU_PER_POINT
         IN  [row |-> IF y_value < next THEN <<lo>> ELSE <<>>, cumulative |-> next]
    ELSE LET mid == (lo + hi) \div 2
             first == RowScan(heights, default, y_value, lo, mid, cumulative)
         IN  IF first.row # <<>> THEN first
             ELSE RowScan(heights, default, y_value, mid + 1, hi, first.cumulative)

\* _row_from_y_emu
RowFromYEmu(given, heights, default, y) ==
    IF ~given \/ y = <<>> THEN <<>>
    ELSE RowScan(heights, default, IF y[1] < 0 THEN 0 ELSE y[1], 1,
                 (IF Len(heights) = 0 THEN 1 ELSE Len(heights)) + RowScanMargin,
                 0).row

\* the height in EMU of the rows 1..n of the sheet, n <= ws.max_row
RECURSIVE SheetHeightEmu(_, _, _)
SheetHeightEmu(heights, default, n) ==
    IF n = 0 THEN 0
    ELSE SheetHeightEmu(heights, default, n - 1)
         + RowHeightPoints(TRUE, heights, default, n) * EMU_PER_POINT

\* the offsets of an anchor: none, before the sheet, every five points, one
\* EMU before each, and the two offsets around the end of the rows scanned
OffsetsOf(heights, default) ==
    LET scanned == SheetHeightEmu(heights, default, Len(heights))
                   + RowScanMargin * DefaultHeightPoints(TRUE, default) * EMU_PER_POINT
    IN  {<<>>, <<-1>>, <<scanned - 1>>, <<scanned>>}
        \cup {<<5 * k * EMU_PER_POINT>> : k \in 0..MaxYSteps}
        \cup {<<5 * k * EMU_PER_POINT - 1>> : k \in 1..MaxYSteps}

InitRowY ==
    /\ pc = "row_y_call"
    /\ ws_given \in BOOLEAN
    /\ row_heights \in UNION {[1..n -> ExplicitHeights] : n \in 1..MaxHeightRows}
    /\ default_row_height \in DefaultHeights
    /\ y_emu \in OffsetsOf(row_heights, default_row_height)
    /\ y_row = <<>>
    /\ ReqInit
    /\ AuxIdleExcept("rowY")

CallRowFromYEmu ==
    /\ pc = "row_y_call"
    /\ y_row' = RowFromYEmu(ws_given, row_heights, default_row_height, y_emu)
    /\ pc' = "row_y_done"
    /\ UNCHANGED <<ws_given, row_heights, default_row_height, y_emu>>
    /\ UNCHANGED reqFields
    /\ AuxUnchangedExcept("rowY")

SpecRowY == InitRowY /\ [][CallRowFromYEmu]_vars

\* the smallest row whose cumulative height exceeds y, the rows 1..Len(h) of
\* heights h[i] points followed by rows of d points each
SmallestRowAbove(h, d, y) ==
    LET Sum[n \in 0..Len(h)] == IF n = 0 THEN 0 ELSE Sum[n - 1] + h[n] * EMU_PER_POINT
        within == {r \in 1..Len(h) : Sum[r] > y}
    IN  IF within # {}
        THEN CHOOSE r \in within : \A q \in within : r <= q
        ELSE Len(h) + ((y - Sum[Len(h)]) \div (d * EMU_PER_POINT)) + 1

\* height(i) as stated: the explicit height, or the default without one
StatedHeights ==
    [i \in 1..Len(row_heights) |->
        IF row_heights[i] = <<>>
        THEN DefaultHeightPoints(TRUE, default_row_height)
        ELSE row_heights[i][1]]

\* height(i) of the code: an explicit height of 0 counts as no height
UsedHeights ==
    [i \in 1..Len(row_heights) |->
        IF row_heights[i] = <<>> \/ row_heights[i][1] = 0
        THEN DefaultHeightPoints(TRUE, default_row_height)
        ELSE row_heights[i][1]]

OffsetGiven == ws_given /\ y_emu # <<>> /\ y_emu[1] >= 0

\* C20 as stated: for an offset y >= 0 the result is the smallest row r >= 1
\* whose cumulative height, the explicit height or else the default height of
\* each row times 12700, is greater than y.
CE_C20_SmallestRowAbove ==
    pc = "row_y_done" /\ OffsetGiven =>
       y_row = <<SmallestRowAbove(StatedHeights,
                                  DefaultHeightPoints(TRUE, default_row_height),
                                  y_emu[1])>>

\* C20 amended: for an offset y >= 0 on a worksheet, the result is the
\* smallest row r >= 1 whose cumulative height is greater than y, a row
\* without explicit height or with explicit height 0 counting the default
\* height, provided r <= max_row + 500; beyond that there is no result.
\* Offset 0 maps to row 1.
Thm_C20_SmallestRowWithinScan ==
    pc = "row_y_done" /\ OffsetGiven =>
       LET r == SmallestRowAbove(UsedHeights,
                                 DefaultHeightPoints(TRUE, default_row_height),
                                 y_emu[1])
       IN  /\ y_row = IF r <= Len(row_heights) + RowScanMargin THEN <<r>> ELSE <<>>
           /\ y_emu[1] = 0 => y_row = <<1>>

\* an offset on the boundary between the first row, of explicit height, and
\* the second has been mapped to the second row
Wit_C20_SecondRowAtBoundary ==
    /\ pc = "row_y_done"
    /\ OffsetGiven
    /\ Len(row_heights) >= 2
    /\ row_heights[1] = <<10>>
    /\ y_emu = <<10 * EMU_PER_POINT>>
    /\ y_row = <<2>>

-----------------------------------------------------------------------------
\* Format of an image: _detect_ext (backend.py:40-47), _normalize_ext (50-56),
\* _maybe_upscale_image (1071-1088).  A text is the sequence of its
\* characters, a byte string the sequence of its bytes.

\* the formats by name
Fmt ==
    [png |-> <<"p", "n", "g">>, jpg |-> <<"j", "p", "g">>, jpeg |-> <<"j", "p", "e", "g">>,
     gif |-> <<"g", "i", "f">>, bmp |-> <<"b", "m", "p">>, tif |-> <<"t", "i", "f">>,
     tiff |-> <<"t", "i", "f", "f">>, webp |-> <<"w", "e", "b", "p">>]

\* b"\x89PNG\r\n\x1a\n", b"\xff\xd8\xff", b"GIF8"
Signature ==
    [png |-> <<137, 80, 78, 71, 13, 10, 26, 10>>,
     jpg |-> <<255, 216, 255>>,
     gif |-> <<71, 73, 70, 56>>]

\* the declared extensions: Path(...).suffix of a media part, and texts a
\* caller may pass
ExtTexts ==
    {<<>>,
     <<".", "p", "n", "g">>,
     <<".", "P", "N", "G">>,
     <<"p", "n", "g">>,
     <<".", "j", "p", "g">>,
     <<".", "j", "p", "e", "g">>,
     <<".", "J", "P", "E", "G">>,
     <<".", "g", "i", "f">>,
     <<".", "b", "m", "p">>,
     <<".", "t", "i", "f">>,
     <<".", "T", "I", "F">>,
     <<".", "t", "i", "f", "f">>,
     <<".", "w", "e", "b", "p">>,
     <<".", "e", "m", "f">>,
     <<".", "w", "m", "f">>,
     <<".", "s", "v", "g">>,
     <<"p", ".", "n", ".", "g">>,
     <<".">>}

\* the contents of an image part: each signature followed by a byte, a
\* signature cut short, other bytes, no byte
ImageBytes ==
    {Signature.png \o <<0>>, Signature.jpg \o <<224>>, Signature.gif \o <<57>>,
     SubSeq(Signature.png, 1, 7), SubSeq(Signature.jpg, 1, 2),
     SubSeq(Signature.gif, 1, 3), <<66, 77, 0>>, <<>>}

UpperLetters == <<"A", "B", "C", "D", "E", "F", "G", "H", "I", "J", "K", "L", "M", "N", "O", "P", "Q", "R", "S", "T", "U", "V", "W", "X", "Y", "Z">>
LowerLetters == <<"a", "b", "c", "d", "e", "f", "g", "h", "i", "j", "k", "l", "m", "n", "o", "p", "q", "r", "s", "t", "u", "v", "w", "x", "y", "z">>

\* str.lower() on one character
Lower(c) ==
    IF \E i \in 1..Len(UpperLetters) : UpperLetters[i] = c
    THEN LowerLetters[CHOOSE i \in 1..Len(UpperLetters) : UpperLetters[i] = c]
    ELSE c

\* ext.lower()
ToLower(text) == [i \in 1..Len(text) |-> Lower(text[i])]

\* ext.replace(".", "")
RemoveDots(text) == SelectSeq(text, LAMBDA c : c # ".")

\* data.startswith(prefix)
StartsWith(data, prefix) ==
    Len(data) >= Len(prefix) /\ SubSeq(data, 1, Len(prefix)) = prefix

\* _detect_ext
DetectExt(data) ==
    IF StartsWith(data, Signature.png) THEN Fmt.png
    ELSE IF StartsWith(data, Signature.jpg) THEN Fmt.jpg
    ELSE IF StartsWith(data, Signature.gif) THEN Fmt.gif
    ELSE Fmt.png

\* _normalize_ext returning every declared extension that is not empty
NormalizeExtTrusting(ext, data) ==
    LET e == RemoveDots(ToLower(IF ext = None THEN <<>> ELSE ext[1]))
    IN  IF e = Fmt.jpeg THEN Fmt.jpg
        ELSE IF e # <<>> THEN e
        ELSE DetectExt(data)

\* _normalize_ext; ext is None or <<text>>
NormalizeExt(ext, data) ==
    LET e == RemoveDots(ToLower(IF ext = None THEN <<>> ELSE ext[1]))
    IN  IF e = Fmt.jpeg THEN Fmt.jpg
        ELSE IF e \in {Fmt.png, Fmt.jpg, Fmt.gif, Fmt.bmp, Fmt.tif, Fmt.tiff, Fmt.webp}
        THEN e
        ELSE DetectExt(data)

\* the format _maybe_upscale_image returns: "png" for an image it resized,
\* the format passed in otherwise
UpscaledExt(ext, did_upscale) == IF did_upscale THEN Fmt.png ELSE ext

InitExt ==
    /\ pc = "ext_call"
    /\ ext_arg \in {None} \cup {<<t>> : t \in ExtTexts}
    /\ ext_data \in ImageBytes
    /\ ext_result = <<>>
    /\ out_ext = <<>>
    /\ ReqInit
    /\ AuxIdleExcept("ext")

\* "ext": _normalize_ext(Path(media_path).suffix, data)
CallNormalizeExt ==
    /\ pc = "ext_call"
    /\ ext_result' = <<NormalizeExt(ext_arg, ext_data)>>
    /\ pc' = "ext_prepare"
    /\ UNCHANGED <<ext_arg, ext_data, out_ext>>
    /\ UNCHANGED reqFields
    /\ AuxUnchangedExcept("ext")

\* out_data, out_ext, did_upscale = _prepared_image(entry); the file is
\* written as <code>.<out_ext>
PrepareImage ==
    /\ pc = "ext_prepare"
    /\ \E did_upscale \in BOOLEAN :
           out_ext' = <<UpscaledExt(ext_result[1], did_upscale)>>
    /\ pc' = "ext_done"
    /\ UNCHANGED <<ext_arg, ext_data, ext_result>>
    /\ UNCHANGED reqFields
    /\ AuxUnchangedExcept("ext")

NextExt ==
    \/ CallNormalizeExt
    \/ PrepareImage

SpecExt == InitExt /\ [][NextExt]_vars

ExtReturned == pc \in {"ext_prepare", "ext_done"}

\* the declared extension as the function compares it: lower case, without
\* dots; empty when none is declared
DeclaredExt == RemoveDots(ToLower(IF ext_arg = None THEN <<>> ELSE ext_arg[1]))

\* the known-good declared extensions, "jpeg" apart
KnownGoodExts == {Fmt.png, Fmt.jpg, Fmt.gif, Fmt.bmp, Fmt.tif, Fmt.tiff, Fmt.webp}

\* the format the bytes stand for: the PNG signature gives png, the JPEG
\* signature jpg, "GIF8" gif, anything else png
FormatBySignature ==
    CASE StartsWith(ext_data, <<137, 80, 78, 71, 13, 10, 26, 10>>) -> Fmt.png
      [] StartsWith(ext_data, <<255, 216, 255>>) -> Fmt.jpg
      [] StartsWith(ext_data, <<71, 73, 70, 56>>) -> Fmt.gif
      [] OTHER -> Fmt.png

\* C21: _normalize_ext returns the declared extension (compared in lower
\* case and without dots) when it is one of the known-good extensions, jpg
\* for jpeg, and for any other or missing extension the format of the byte
\* signature: png, jpg or gif, and png for unrecognised bytes.
Thm_C21_NormalizeExt ==
    ExtReturned =>
        IF DeclaredExt = Fmt.jpeg THEN ext_result[1] = Fmt.jpg
        ELSE IF DeclaredExt \in KnownGoodExts THEN ext_result[1] = DeclaredExt
        ELSE ext_result[1] = FormatBySignature

\* an extension outside the known-good set on JPEG bytes: the signature
\* decides
Wit_C21_UnknownExtJpegBytes ==
    /\ ExtReturned
    /\ ext_arg = <<<<".", "e", "m", "f">>>>
    /\ StartsWith(ext_data, Signature.jpg)
    /\ ext_result = <<Fmt.jpg>>

\* the formats the result type names
StatedFormats == {Fmt.png, Fmt.jpg, Fmt.gif, Fmt.bmp, Fmt.tiff, Fmt.webp}

\* C22: the format of every image written is one of png, jpg, gif, bmp, tiff
\* and webp.
CE_C22_FormatInStatedSet ==
    pc = "ext_done" => out_ext[1] \in StatedFormats

-----------------------------------------------------------------------------
\* The strict-mapping branch of extract_images (backend.py:1267-1301) on a
\* sheet with more target rows than a line of the report lists.

\* target rows of the sheet
MaxReportRows == 21

\* the request after the chain selected the drawing anchors: target rows
\* 1..n and one anchor, on a target row or on the row below the last one
InitLongSheet ==
    /\ pc = "branch"
    /\ \E n \in 1..MaxReportRows : target_rows = [i \in 1..n |-> i]
    /\ \E r \in 1..(Len(target_rows) + 1) :
           drawing_entries = AnchorEntries("drawing", <<<<r>>>>)
    /\ source_entries = drawing_entries
    /\ extraction_mode = "drawing_anchor"
    /\ openpyxl_entries = <<>>
    /\ related_anchor_entries = <<>>
    /\ dispimg_entries = <<>>
    /\ cellimages_anchor_entries = <<>>
    /\ media_images = <<>>
    /\ mapped_rows = <<>>
    /\ mapping_info = [strategy |-> "none", exact_row_matches |-> 0,
                       strict_col_matches |-> 0, missing_rows |-> <<>>]
    /\ non_target_anchor_rows = <<>>
    /\ skipped_reasons = <<>>
    /\ written = <<>>
    /\ extracted_count = 0
    /\ skipped_count = 0
    /\ summary = <<>>
    /\ response = [status |-> 0, zip |-> FALSE, message |-> <<>>]
    /\ AuxIdle

NextLongSheet ==
    \/ StrictMapping
    \/ Respond

SpecLongSheet == InitLongSheet /\ [][NextLongSheet]_vars

\* the rows that the lines of the report name as missing
RowsNamedMissing ==
    UNION {Range(summary.details[k].rows) :
             k \in {j \in 1..Len(summary.details) : summary.details[j].kind = "missing_rows"}}

\* C24: when the selected list leaves target rows without anchor, the report
\* of the request names every row of missing_rows and the strategy that was
\* selected, however many rows are missing.
CE_C24_EveryMissingRowNamed ==
    (pc = "done" /\ source_entries # <<>> /\ mapping_info.missing_rows # <<>>) =>
       /\ MissingRowSet \subseteq RowsNamedMissing
       /\ summary.extraction_mode = StrategyNames[FirstNonEmpty]

-----------------------------------------------------------------------------
\* The extractor calls of extract_images (backend.py:1182-1187) on a package
\* that holds every part, some of them not well-formed XML.  ET.fromstring
\* raises ParseError on such a part; no call is inside a try block of
\* extract_images, so the error reaches _handle_unexpected_error (1116-1121),
\* which answers 500.

\* the parts that are XML
XmlParts == PartNames \ {Part.media}

\* _extract_drawing_images_for_sheet: the drawing parts are those that the
\* <drawing> elements of the sheet name
DrawingImagesOfSheet(present, drawing_ref) ==
    LET sheet == SheetPathForName(present)
        sheet_rels == ReadRelationships(present, Part.sheet_rels)
    IN  IF drawing_ref \/ sheet.path = "" \/ sheet.path \notin present
        THEN DrawingImagesForSheet(present)
        ELSE [reads |-> sheet.reads \cup {sheet.path} \cup sheet_rels.reads,
              entries |-> <<>>]

\* _extract_sheet_related_anchor_images: "except Exception: continue" around
\* the parse of a related part
SheetRelatedImagesParsed(present, malformed) ==
    LET sheet == SheetPathForName(present)
        sheet_rels == ReadRelationships(present, Part.sheet_rels)
        part_path == sheet_rels.target
        run == SheetRelatedAnchorImages(present)
    IN  IF /\ sheet.path # "" /\ sheet.path \in present
           /\ part_path # "" /\ part_path \in present
           /\ part_path \in malformed
        THEN [reads |-> sheet.reads \cup sheet_rels.reads,
              skipped |-> {part_path},
              entries |-> <<>>]
        ELSE [reads |-> run.reads, skipped |-> {}, entries |-> run.entries]

\* _extract_dispimg_row_keys: the sheet is parsed; the openpyxl fallback is
\* inside try/except
DispimgRowKeysOfParts(present) ==
    LET sheet == SheetPathForName(present)
    IN  IF sheet.path = "" \/ sheet.path \notin present
        THEN [reads |-> sheet.reads, entries |-> <<>>]
        ELSE [reads |-> sheet.reads \cup {sheet.path}, entries |-> <<>>]

InitXml ==
    /\ pc = "xml_drawing"
    /\ xml_malformed \in SUBSET XmlParts
    /\ xml_drawing_ref \in BOOLEAN
    /\ xml_run = [parsed |-> {}, found |-> <<>>]
    /\ ReqInit
    /\ AuxIdleExcept("xml")

\* one extractor call: it raises when it parses a malformed part outside a
\* try block, and returns its list otherwise
XmlCall(step, reads, skipped, entries, next) ==
    /\ pc = step
    /\ xml_run' = [parsed |-> xml_run.parsed \cup ((reads \cup skipped) \cap XmlParts),
                   found |-> IF reads \cap xml_malformed = {}
                             THEN Append(xml_run.found, entries)
                             ELSE xml_run.found]
    /\ pc' = IF reads \cap xml_malformed = {} THEN next ELSE "xml_failed"
    /\ UNCHANGED <<xml_malformed, xml_drawing_ref>>
    /\ UNCHANGED reqFields
    /\ AuxUnchangedExcept("xml")

XmlCallDrawing ==
    LET run == DrawingImagesOfSheet(PartNames, xml_drawing_ref)
    IN  XmlCall("xml_drawing", run.reads, {}, run.entries, "xml_related")

XmlCallSheetRelated ==
    LET run == SheetRelatedImagesParsed(PartNames, xml_malformed)
    IN  XmlCall("xml_related", run.reads, run.skipped, run.entries, "xml_dispimg")

XmlCallDispimg ==
    LET run == DispimgEntriesOfParts(PartNames)
    IN  XmlCall("xml_dispimg", run.reads, {}, run.entries, "xml_cellimages")

XmlCallCellimagesAnchor ==
    LET run == CellimagesAnchorEntriesOfParts(PartNames)
    IN  XmlCall("xml_cellimages", run.reads, {}, run.entries, "xml_row_keys")

XmlCallDispimgRowKeys ==
    LET run == DispimgRowKeysOfParts(PartNames)
    IN  XmlCall("xml_row_keys", run.reads, {}, run.entries, "xml_media")

XmlCallMedia ==
    LET run == MediaImagesOfParts(PartNames)
    IN  XmlCall("xml_media", run.reads, {}, run.entries, "xml_done")

NextXml ==
    \/ XmlCallDrawing
    \/ XmlCallSheetRelated
    \/ XmlCallDispimg
    \/ XmlCallCellimagesAnchor
    \/ XmlCallDispimgRowKeys
    \/ XmlCallMedia

SpecXml == InitXml /\ [][NextXml]_vars

\* C25: when a part that an extractor parses is not well-formed XML the
\* request fails; no request goes on to the mapping after an extractor met a
\* malformed part.
CE_C25_MalformedXmlFails ==
    pc = "xml_done" => xml_run.parsed \cap xml_malformed = {}

-----------------------------------------------------------------------------
\* Cell of a cell-relative anchor: _anchor_row_col_from_node
\* (backend.py:646-682).  An anchor node is given by its tag, its "from"
\* marker and its "to" marker; a marker is None when the anchor has none,
\* else <<parts>>, the list of its child elements, each with the lower-cased
\* local name of its tag and its text.

\* the texts of the children of a marker: "0", "4", "-1", " 2 ", "", "x", "1.5"
MarkerTexts ==
    {<<"0">>, <<"4">>, <<"-", "1">>, <<" ", "2", " ">>, <<>>, <<"x">>, <<"1", ".", "5">>}

\* the tags of the children of a marker
MarkerTags == {"row", "col", "rowoff"}

\* the markers of an anchor: the children have distinct tags, in any order,
\* and any of them may be absent
Markers ==
    {parts \in UNION {[1..n -> [tag : MarkerTags, text : MarkerTexts]] : n \in 0..2} :
        \A i \in 1..Len(parts) : \A j \in 1..Len(parts) : i # j => parts[i].tag # parts[j].tag}

\* the "to" marker of a twoCellAnchor: column 1, row 7
ToMarker == <<[tag |-> "col", text |-> <<"1">>], [tag |-> "row", text |-> <<"7">>]>>

\* the anchor nodes
CellAnchorNodes ==
    {[tag |-> "oneCellAnchor", from |-> f, to |-> None] : f \in {None} \cup {<<m>> : m \in Markers}}
    \cup {[tag |-> "twoCellAnchor", from |-> f, to |-> <<ToMarker>>] : f \in {None} \cup {<<m>> : m \in Markers}}

DigitChars == <<"0", "1", "2", "3", "4", "5", "6", "7", "8", "9">>

IsDigitChar(c) == \E i \in 1..Len(DigitChars) : DigitChars[i] = c

DigitValue(c) == (CHOOSE i \in 1..Len(DigitChars) : DigitChars[i] = c) - 1

\* str.strip(): the text without its leading and trailing blanks
RECURSIVE StripText(_)
StripText(text) ==
    IF text = <<>> THEN <<>>
    ELSE IF Head(text) = " " THEN StripText(Tail(text))
    ELSE IF text[Len(text)] = " " THEN StripText(SubSeq(text, 1, Len(text) - 1))
    ELSE text

\* the number written by a non-empty text of digits
RECURSIVE DigitsValue(_)
DigitsValue(digits) ==
    IF digits = <<>> THEN 0
    ELSE 10 * DigitsValue(SubSeq(digits, 1, Len(digits) - 1)) + DigitValue(digits[Len(digits)])

\* int(text) inside try/except: <<n>> when the text is an optional sign
\* followed by digits, None when int() raises ValueError
IntOfText(text) ==
    LET signed == text # <<>> /\ Head(text) \in {"-", "+"}
        digits == IF signed THEN Tail(text) ELSE text
    IN  IF digits = <<>> \/ \E i \in 1..Len(digits) : ~IsDigitChar(digits[i]) THEN None
        ELSE IF signed /\ Head(text) = "-" THEN <<0 - DigitsValue(digits)>>
        ELSE <<DigitsValue(digits)>>

\* the value of the last child of the marker tagged tag_name: int(text) + 1,
\* None when there is no such child or its text is not an integer
MarkerCoordinate(parts, tag_name) ==
    LET at == {i \in 1..Len(parts) : parts[i].tag = tag_name}
    IN  IF at = {} THEN None
        ELSE LET last == CHOOSE i \in at : \A j \in at : j <= i
                 n == IntOfText(StripText(parts[last].text))
             IN  IF n = None THEN None ELSE <<n[1] + 1>>

\* _anchor_row_col_from_node taking the "to" marker when there is no "from"
\* marker, and 0 for a text that is not an integer
AnchorRowColGuessed(anchor, start_row) ==
    LET marker == IF anchor.from # None THEN anchor.from ELSE anchor.to
        guess(c) == IF c = None THEN <<0>> ELSE c
    IN  IF marker = None THEN [row |-> None, col |-> None]
        ELSE [row |-> guess(MarkerCoordinate(marker[1], "row")),
              col |-> guess(MarkerCoordinate(marker[1], "col"))]

\* _anchor_row_col_from_node(anchor, start_row): the pair (row, col)
AnchorRowColFromNode(anchor, start_row) ==
    IF anchor.from = None THEN [row |-> None, col |-> None]
    ELSE [row |-> MarkerCoordinate(anchor.from[1], "row"),
          col |-> MarkerCoordinate(anchor.from[1], "col")]

InitAnchor ==
    /\ pc = "anchor_call"
    /\ ReqInit
    /\ AuxIdleExcept("anchor")
    /\ anchor_node \in CellAnchorNodes
    /\ anchor_rc = None

\* row, col = _anchor_row_col_from_node(anchor, start_row=...): the callers
\* pass None (87, 419) or the start row of the layout (512, 974)
CallAnchorRowCol ==
    /\ pc = "anchor_call"
    /\ \E start_row \in {None, <<1>>, <<2>>} :
          anchor_rc' = <<AnchorRowColFromNode(anchor_node, start_row)>>
    /\ pc' = "anchor_done"
    /\ UNCHANGED anchor_node
    /\ UNCHANGED reqFields
    /\ AuxUnchangedExcept("anchor")

NextAnchor == CallAnchorRowCol

SpecAnchor == InitAnchor /\ [][NextAnchor]_vars

\* the zero-based number a text of a marker stands for, None for the texts
\* that are not integers
ZeroBasedOfText ==
    [t \in MarkerTexts |->
        CASE t = <<"0">> -> <<0>>
          [] t = <<"4">> -> <<4>>
          [] t = <<"-", "1">> -> <<0 - 1>>
          [] t = <<" ", "2", " ">> -> <<2>>
          [] OTHER -> None]

\* the coordinate stated for an anchor: the zero-based number of the child
\* of the "from" marker plus one, None without a marker, without the child,
\* or with a text that is not an integer
StatedCoordinate(node, tag_name) ==
    IF node.from = None \/ \A i \in 1..Len(node.from[1]) : node.from[1][i].tag # tag_name
    THEN None
    ELSE LET part == CHOOSE p \in Range(node.from[1]) : p.tag = tag_name
         IN  IF ZeroBasedOfText[part.text] = None THEN None
             ELSE <<ZeroBasedOfText[part.text][1] + 1>>

\* C26: the row and the column returned for a cell-relative anchor are the
\* zero-based row and column of its "from" marker plus one; without a "from"
\* marker, without the child, or with a text that is not an integer, the
\* coordinate is None: it is not 0 and it is not taken from another marker.
Thm_C26_FromMarkerPlusOne ==
    pc = "anchor_done" =>
        /\ anchor_rc[1].row = StatedCoordinate(anchor_node, "row")
        /\ anchor_rc[1].col = StatedCoordinate(anchor_node, "col")

\* a twoCellAnchor without "from" marker: neither coordinate is taken from its
\* "to" marker
Wit_C26_NoFromMarker ==
    /\ pc = "anchor_done"
    /\ anchor_node.tag = "twoCellAnchor"
    /\ anchor_node.from = None
    /\ anchor_rc[1] = [row |-> None, col |-> None]

-----------------------------------------------------------------------------
\* Shared formulas in the row-key map: _extract_dispimg_row_map
\* (backend.py:722-748) on the cells of a sheet part.

\* the <f> nodes of the cells of a column: in the image column an inline
\* formula, two definitions of id 1, cells of id 1 without text of type
\* shared, of no type and of type array, a cell of id 2 without text, and a
\* definition of id 1 whose formula quotes no key; in the next column a
\* definition of id 1
RowMapFormulaKinds(col) ==
    IF col = FIXED_IMAGE_COL
    THEN { [text |-> "ID_1", si |-> 0, t |-> None],
           [text |-> "ID_1", si |-> 1, t |-> <<"shared">>],
           [text |-> "ID_2", si |-> 1, t |-> <<"shared">>],
           [text |-> "", si |-> 1, t |-> <<"shared">>],
           [text |-> "", si |-> 1, t |-> None],
           [text |-> "", si |-> 1, t |-> <<"array">>],
           [text |-> "", si |-> 2, t |-> <<"shared">>],
           [text |-> "A1", si |-> 1, t |-> <<"shared">>] }
    ELSE { [text |-> "ID_2", si |-> 1, t |-> <<"shared">>] }

\* the cells of a sheet part in document order, at most n of them
RECURSIVE RowMapCellsFrom(_, _)
RowMapCellsFrom(positions, n) ==
    IF n = 0 \/ positions = <<>> THEN {<<>>}
    ELSE RowMapCellsFrom(Tail(positions), n)
         \cup { <<[row |-> Head(positions)[1], col |-> Head(positions)[2],
                   text |-> k.text, si |-> k.si, t |-> k.t]>> \o rest :
                k \in RowMapFormulaKinds(Head(positions)[2]),
                rest \in RowMapCellsFrom(Tail(positions), n - 1) }

InitRowMap ==
    /\ pc = "rowmap_call"
    /\ rowmap_cells \in RowMapCellsFrom(GridPositions(1), MaxRow)
    /\ rowmap_result = <<>>
    /\ ReqInit
    /\ AuxIdleExcept("rowmap")

\* row_key_map = _extract_dispimg_row_map(archive, sheet_path, image_col, start_row)
CallExtractDispimgRowMap ==
    /\ pc = "rowmap_call"
    /\ \E start_row \in 1..MaxRow :
          rowmap_result' = DispimgRowMap(rowmap_cells, FIXED_IMAGE_COL, start_row)
    /\ pc' = "rowmap_done"
    /\ UNCHANGED rowmap_cells
    /\ UNCHANGED reqFields
    /\ AuxUnchangedExcept("rowmap")

NextRowMap == CallExtractDispimgRowMap

SpecRowMap == InitRowMap /\ [][NextRowMap]_vars

\* the cells of the image column before cell i that define the id of cell i
EarlierDefinitions(cells, i) ==
    {j \in 1..(i - 1) : /\ cells[j].col = FIXED_IMAGE_COL
                        /\ cells[j].si = cells[i].si
                        /\ cells[j].text # ""}

\* the formula text of the most recent definition before cell i, "" when
\* there is none
InheritedText(cells, i) ==
    IF EarlierDefinitions(cells, i) = {} THEN ""
    ELSE cells[CHOOSE j \in EarlierDefinitions(cells, i) :
                   \A k \in EarlierDefinitions(cells, i) : k <= j].text

\* the formula text of cell i when every cell with an id and no text
\* inherits, and when only those of type shared or of no type do
FormulaTextAnyType(cells, i) ==
    IF cells[i].text # "" THEN cells[i].text
    ELSE IF cells[i].si # 0 THEN InheritedText(cells, i)
    ELSE ""

FormulaTextSharedType(cells, i) ==
    IF cells[i].text # "" THEN cells[i].text
    ELSE IF cells[i].si # 0 /\ cells[i].t \in {<<"shared">>, None} THEN InheritedText(cells, i)
    ELSE ""

\* the key quoted by a formula text of the sheets drawn: the text itself,
\* but for A1, which quotes none
QuotedKey(text) == IF text \in {"ID_1", "ID_2"} THEN text ELSE ""

\* the image-column cells of row r
ImageCellsOfRow(cells, r) ==
    {i \in 1..Len(cells) : cells[i].row = r /\ cells[i].col = FIXED_IMAGE_COL}

\* C27 as stated: every image-column cell with a shared-formula id and no
\* text has the key of the most recent earlier definition of its id in the
\* image column, whatever the type of its formula.
CE_C27_IdWithoutTextInherits ==
    pc = "rowmap_done" =>
        \A r \in 1..MaxRow : \A i \in ImageCellsOfRow(rowmap_cells, r) :
            rowmap_result[r] = QuotedKey(FormulaTextAnyType(rowmap_cells, i))

\* C27, amended: scanning the cells in document order, an image-column cell
\* whose formula has a shared-formula id, no text and the type shared or no
\* type has the key quoted by the most recent earlier image-column cell that
\* defined the id; a cell of another formula type, a cell whose id has no
\* earlier definition in the image column, a cell whose formula quotes no
\* key, and a row without image-column cell have no key.
Thm_C27_SharedFormulaInherits ==
    pc = "rowmap_done" =>
        \A r \in 1..MaxRow :
            /\ \A i \in ImageCellsOfRow(rowmap_cells, r) :
                  rowmap_result[r] = QuotedKey(FormulaTextSharedType(rowmap_cells, i))
            /\ ImageCellsOfRow(rowmap_cells, r) = {} => rowmap_result[r] = ""

\* two definitions of id 1 in rows 1 and 2, and a cell of id 1 without text
\* in row 3 that has the key of the second
Wit_C27_MostRecentDefinition ==
    /\ pc = "rowmap_done"
    /\ Len(rowmap_cells) = 3
    /\ \A i \in 1..3 : rowmap_cells[i].row = i /\ rowmap_cells[i].col = FIXED_IMAGE_COL
                       /\ rowmap_cells[i].si = 1
    /\ rowmap_cells[1].text = "ID_1"
    /\ rowmap_cells[2].text = "ID_2"
    /\ rowmap_cells[3].text = ""
    /\ rowmap_result = <<"ID_1", "ID_2", "ID_2">>

-----------------------------------------------------------------------------
\* The counts of a request that took the strict mapping branch
\* (backend.py:1264, 1267-1301, 1372-1373).

\* the files written for a row
FilesOfRow(r) == {i \in 1..Len(written) : written[i].row = <<r>>}

\* C28: after a request with target rows and a non-empty selected list, one
\* file is written for every matched row and none else, extracted_count is
\* the number of matched rows, skipped_count the number of missing rows, and
\* the two sum to the number of target rows; summary.txt reports both.
Thm_C28_StrictAccounting ==
    (AfterBranch /\ target_rows # <<>> /\ source_entries # <<>>) =>
        /\ Len(written) = Cardinality(MatchedRows)
        /\ \A r \in MatchedRows : Cardinality(FilesOfRow(r)) = 1
        /\ extracted_count = Cardinality(MatchedRows)
        /\ skipped_count = Cardinality(MissingRowSet)
        /\ extracted_count + skipped_count = Len(target_rows)
        /\ summary.extracted = extracted_count
        /\ summary.skipped = skipped_count

\* three target rows: two files written, one row skipped
Wit_C28_TwoWrittenOneSkipped ==
    /\ pc = "done"
    /\ Len(target_rows) = 3
    /\ source_entries # <<>>
    /\ extracted_count = 2
    /\ Len(written) = 2
    /\ skipped_count = 1

-----------------------------------------------------------------------------
\* Names of the files of a bundle: _next_unique_filename (backend.py:103-115,
\* the same function in src/app.py:62-74) on the set seen_filenames of a
\* request (1199).  A name is the sequence of its characters.

\* calls of one request
MaxNameCalls == 4

\* the codes of the rows: A, A_2, B
BaseNames == {<<"A">>, <<"A", "_", "2">>, <<"B">>}

\* the formats of the images written
NameExts == {Fmt.png, Fmt.jpg}

\* "{0}".format(n) for a number n >= 0
RECURSIVE Decimal(_)
Decimal(n) ==
    IF n < 10 THEN <<DigitChars[n + 1]>>
    ELSE Decimal(n \div 10) \o <<DigitChars[(n % 10) + 1]>>

\* "{0}.{1}".format(base_name, ext)
PlainName(base_name, ext) == base_name \o <<".">> \o ext

\* "{0}_{1}.{2}".format(base_name, counter, ext)
NumberedName(base_name, counter, ext) ==
    base_name \o <<"_">> \o Decimal(counter) \o <<".">> \o ext

\* the while loop: the first counter from counter upward whose name is not
\* in seen
RECURSIVE FirstFreeCounter(_, _, _, _)
FirstFreeCounter(base_name, ext, seen, counter) ==
    IF NumberedName(base_name, counter, ext) \notin seen THEN counter
    ELSE FirstFreeCounter(base_name, ext, seen, counter + 1)

\* _next_unique_filename trying the counter 2 only
NextUniqueFilenameOneRetry(base_name, ext, seen) ==
    IF PlainName(base_name, ext) \notin seen THEN PlainName(base_name, ext)
    ELSE NumberedName(base_name, 2, ext)

\* _next_unique_filename(base_name, ext, seen): the name returned
NextUniqueFilename(base_name, ext, seen) ==
    IF PlainName(base_name, ext) \notin seen THEN PlainName(base_name, ext)
    ELSE NumberedName(base_name, FirstFreeCounter(base_name, ext, seen, 2), ext)

\* seen_filenames = set()
InitNames ==
    /\ pc = "name_call"
    /\ seen_filenames = {}
    /\ name_calls = <<>>
    /\ ReqInit
    /\ AuxIdleExcept("names")

\* filename = _next_unique_filename(safe_code, out_ext, seen_filenames): the
\* name is added to the set and returned
CallNextUniqueFilename ==
    /\ pc = "name_call"
    /\ Len(name_calls) < MaxNameCalls
    /\ \E base_name \in BaseNames, ext \in NameExts :
          LET filename == NextUniqueFilename(base_name, ext, seen_filenames)
          IN  /\ seen_filenames' = seen_filenames \cup {filename}
              /\ name_calls' = Append(name_calls,
                                      [base_name |-> base_name, ext |-> ext,
                                       filename |-> filename])
    /\ pc' = "name_call"
    /\ UNCHANGED reqFields
    /\ AuxUnchangedExcept("names")

NextNames == CallNextUniqueFilename

SpecNames == InitNames /\ [][NextNames]_vars

\* the names returned before call i
NamesBefore(i) == {name_calls[j].filename : j \in 1..(i - 1)}

\* the calls before call i with its base name and extension
EarlierUses(i) ==
    {j \in 1..(i - 1) : /\ name_calls[j].base_name = name_calls[i].base_name
                        /\ name_calls[j].ext = name_calls[i].ext}

\* C29 as stated: the names returned are pairwise distinct, the first use of
\* a base name returns "base.ext", and its n-th use returns "base_n.ext".
CE_C29_FirstUsePlainName ==
    \A i \in 1..Len(name_calls) :
        /\ name_calls[i].filename \notin NamesBefore(i)
        /\ EarlierUses(i) = {} =>
              name_calls[i].filename = PlainName(name_calls[i].base_name, name_calls[i].ext)
        /\ EarlierUses(i) # {} =>
              name_calls[i].filename =
                  NumberedName(name_calls[i].base_name, Cardinality(EarlierUses(i)) + 1,
                               name_calls[i].ext)

\* C29, amended: every call returns a name that was not in seen before it,
\* and seen afterwards holds the names returned so far and nothing else, so
\* the names are pairwise distinct; the name is "base.ext" when that name is
\* not in seen, else "base_k.ext" for the smallest k >= 2 whose name is not
\* in seen, and k is at most the number of names in seen plus 2.
Thm_C29_UniqueNames ==
    /\ seen_filenames = {name_calls[i].filename : i \in 1..Len(name_calls)}
    /\ Cardinality(seen_filenames) = Len(name_calls)
    /\ \A i \in 1..Len(name_calls) :
          LET call == name_calls[i]
              plain == PlainName(call.base_name, call.ext)
          IN  /\ call.filename \notin NamesBefore(i)
              /\ plain \notin NamesBefore(i) => call.filename = plain
              /\ plain \in NamesBefore(i) =>
                    \E k \in 2..(i + 1) :
                       /\ call.filename = NumberedName(call.base_name, k, call.ext)
                       /\ \A m \in 2..(k - 1) :
                             NumberedName(call.base_name, m, call.ext) \in NamesBefore(i)

\* the code A used three times and then the code A_2: A.png, A_2.png,
\* A_3.png, A_2_2.png
Wit_C29_DerivedNameTaken ==
    /\ Len(name_calls) = 4
    /\ \A i \in 1..3 : name_calls[i].base_name = <<"A">> /\ name_calls[i].ext = Fmt.png
    /\ name_calls[3].filename = <<"A", "_", "3", ".", "p", "n", "g">>
    /\ name_calls[4].base_name = <<"A", "_", "2">>
    /\ name_calls[4].filename = <<"A", "_", "2", "_", "2", ".", "p", "n", "g">>

-----------------------------------------------------------------------------
\* The paths _resolve_zip_path returns (backend.py:324-331).

\* C30: the path returned for a base part and a raw target has no "." or
\* ".." segment, no backslash and no leading "/".
CE_C30_NormalizedInternalPath ==
    (pc = "resolve_done" /\ resolved # <<>>) =>
        /\ \A i \in 1..Len(resolved[1]) : resolved[1][i] \notin {".", "..", "\\"}
        /\ ~StartsWithSlash(resolved[1])

====
